---- MODULE Spec2Model ----
(***************************************************************************)
(* Order lifecycle, mock executor and rate limiter of                      *)
(* src/src/execution/OrderExecutor.py as a state machine.                  *)
(*                                                                         *)
(* Representation of numbers.  Amounts, prices and balances are Python     *)
(* Decimals.  Order amounts and prices are drawn from whole numbers and    *)
(* are held as integers.  Order.average_price is a quotient and is held    *)
(* as a Decimal of DecimalPrec significant digits: an integer part and     *)
(* FracLen fractional digits, every arithmetic result rounded half-even    *)
(* to DecimalPrec significant digits as Python's default context does.     *)
(* Balances are held in tenths (BTC 0.5 is 5), commissions in thousandths. *)
(* Time (time.time()) is counted in ticks, TicksPerSecond ticks a second.  *)
(***************************************************************************)
EXTENDS Integers, Sequences, FiniteSets, TLC

\* ------------------------------------------------------------------ bounds
TicksPerSecond == 2
MaxTime == 3
NumCallers == 3
MaxOrders == 2
MaxFilled == 3
MaxFillAmount == 6
RequestsPerSecond == 2
MaxCalls == 4

\* ------------------------------------------------------- program constants
DefaultRequestsPerSecond == 10

\* --------------------------------------------------------------- Decimal
DecimalPrec == 28
FracLen == DecimalPrec - 1

DecOfInt(n) == [int |-> n, frac |-> [i \in 1..FracLen |-> 0]]

RECURSIVE NumDigits(_)
NumDigits(n) == IF n < 10 THEN 1 ELSE 1 + NumDigits(n \div 10)

\* frac with one unit added at fractional position pos (pos = 0: the units);
\* carry = 1 when the addition runs over into the integer part
IncAt(frac, pos) ==
    LET below == {j \in 1..pos : frac[j] < 9}
        p == IF below = {} THEN 0 ELSE CHOOSE j \in below : \A k \in below : k <= j
    IN  [carry |-> IF p = 0 THEN 1 ELSE 0,
         frac |-> [i \in 1..FracLen |->
                     IF i = p THEN frac[i] + 1
                     ELSE IF i > p /\ i <= pos THEN 0
                     ELSE frac[i]]]

\* The exact value int.digs (FracLen + 1 fractional digits, `sticky' when
\* non-zero digits follow them) rounded half-even to DecimalPrec digits.
DecRound(int, digs, sticky) ==
    LET keep == IF int = 0 THEN FracLen ELSE DecimalPrec - NumDigits(int)
        guard == digs[keep + 1]
        rest == sticky \/ \E i \in (keep + 2)..(FracLen + 1) : digs[i] # 0
        lastkept == IF keep = 0 THEN int % 10 ELSE digs[keep]
        up == guard > 5 \/ (guard = 5 /\ (rest \/ lastkept % 2 = 1))
        trunc == [i \in 1..FracLen |-> IF i <= keep THEN digs[i] ELSE 0]
        inc == IncAt(trunc, keep)
    IN  IF up THEN [int |-> int + inc.carry, frac |-> inc.frac]
        ELSE [int |-> int, frac |-> trunc]

RECURSIVE MulDigits(_, _, _)
MulDigits(frac, k, i) ==
    IF i > Len(frac) THEN [carry |-> 0, digs |-> <<>>]
    ELSE LET r == MulDigits(frac, k, i + 1)
             v == frac[i] * k + r.carry
         IN  [carry |-> v \div 10, digs |-> <<v % 10>> \o r.digs]

\* Decimal * whole number
DecMulInt(x, k) ==
    LET r == MulDigits(x.frac, k, 1)
    IN  DecRound(x.int * k + r.carry, r.digs \o <<0>>, FALSE)

\* Decimal + whole number
DecAddInt(x, n) == DecRound(x.int + n, x.frac \o <<0>>, FALSE)

RECURSIVE DivDigits(_, _, _, _)
DivDigits(digs, k, i, r) ==
    IF i > Len(digs) THEN [digs |-> <<>>, rem |-> r]
    ELSE LET v == r * 10 + digs[i]
             t == DivDigits(digs, k, i + 1, v % k)
         IN  [digs |-> <<v \div k>> \o t.digs, rem |-> t.rem]

\* Decimal / whole number
DecDivInt(x, k) ==
    LET q == DivDigits(x.frac \o <<0>>, k, 1, x.int % k)
    IN  DecRound(x.int \div k, q.digs, q.rem # 0)

\* ----------------------------------------------------------------- Order
NoPrice == 0

Order(id, symbol, side, order_type, amount, price, stop_price, created_at) ==
    [id |-> id, symbol |-> symbol, side |-> side, order_type |-> order_type,
     amount |-> amount, price |-> price, stop_price |-> stop_price,
     status |-> "new", filled_amount |-> 0, average_price |-> DecOfInt(0),
     commission |-> 0, created_at |-> created_at,
     tags |-> <<>>]    \* the keys a group call adds; exchange, test, created_at left out

\* variant for C25: only an order that nothing has happened to yet is active
is_active_new_only(o) == o.status = "new"

is_active(o) == o.status \in {"new", "pending_new", "partially_filled"}

is_filled(o) == o.status = "filled"

\* variant for C4: a partially filled order can no longer be cancelled
is_cancellable_new_only(o) == o.status = "new"

is_cancellable(o) == o.status \in {"new", "partially_filled"}

update_fill(o, fill_amount, fill_price, commission) ==
    LET filled == o.filled_amount + fill_amount
        total_value == DecAddInt(DecMulInt(o.average_price, filled - fill_amount),
                                 fill_price * fill_amount)
        avg == IF filled > 0 THEN DecDivInt(total_value, filled) ELSE DecOfInt(0)
    IN  [o EXCEPT !.filled_amount = filled,
                  !.average_price = avg,
                  !.commission = @ + commission,
                  !.status = IF filled >= o.amount THEN "filled" ELSE "partially_filled"]


\* ------------------------------------------------- MockOrderExecutor state
VARIABLES
    connected,      \* OrderExecutor.connected
    orders,         \* OrderExecutor.orders: order id -> Order
    order_counter,  \* MockOrderExecutor.order_counter
    balance,        \* MockOrderExecutor.balance: asset -> amount in tenths
    now,            \* time.time(), in ticks
    last_reset,     \* RateLimiter.last_reset
    request_count,  \* RateLimiter.request_count
    requests_per_second, \* RateLimiter.requests_per_second
    sem_value,      \* RateLimiter.semaphore._value
    sem_waiters,    \* RateLimiter.semaphore._waiters, oldest first
    pc,             \* caller -> where its call is suspended
    call,           \* caller -> the call it is in (operation and arguments)
    wake_at,        \* caller -> when its asyncio.sleep ends
    group,          \* caller -> the OCO, bracket or batch call it is in, if any
    ord,            \* caller -> request_count its acquire() was given
    last,           \* the call that returned in the step just taken, if one did
    admitted_at,    \* times of the acquire() returns of the last second
    notional,       \* order id -> sum of fill_price * fill_amount of its fills
    current_capital, \* RiskManager.current_capital
    risk_level,     \* RiskManager.risk_level
    risk_last,      \* the RiskManager call made in the step just taken, if one was
    exchanges,      \* SmartOrderRouter.exchanges: venue -> its executor's state
    quotes,         \* venue -> what its get_ticker() answers at present
    router,         \* the SmartOrderRouter call in progress and its local variables
    router_last,    \* what the router did in the step just taken
    risk_positions, \* RiskManager.positions: symbol -> PositionRisk
    config,         \* risk.RiskManager.config
    open_positions, \* risk.RiskManager.open_positions
    trade_history,  \* risk.RiskManager.trade_history
    today_pnl,      \* risk.RiskManager.today_pnl
    daily_stats,    \* risk.RiskManager.daily_stats
    approved,       \* positions can_open_position allowed and the caller has not added yet
    pos_last        \* the risk.RiskManager call made in the step just taken, if one was

vars == <<connected, orders, order_counter, balance, now, last_reset,
          request_count, requests_per_second, sem_value, sem_waiters, pc, call,
          wake_at, group, ord, last, admitted_at, notional,
          current_capital, risk_level, risk_last,
          exchanges, quotes, router, router_last, risk_positions,
          config, open_positions, trade_history, today_pnl, daily_stats,
          approved, pos_last>>

exec_vars == <<connected, orders, order_counter, balance, notional>>
limiter_vars == <<last_reset, request_count, requests_per_second, sem_value, sem_waiters>>
caller_vars == <<pc, call, wake_at, ord, group>>
risk_vars == <<current_capital, risk_level, risk_last>>
\* the components beside the executor
router_vars == <<exchanges, quotes, router, router_last>>
tracker_vars == <<config, open_positions, trade_history, today_pnl, daily_stats,
                  approved, pos_last>>
outside_vars == <<risk_vars, router_vars, risk_positions, tracker_vars>>

Callers == 1..NumCallers

Sides == {"buy", "sell"}
NoCall == [op |-> "none"]
NoGroup == [op |-> "none"]
None == "None"

\* MockOrderExecutor.tickers, looked up with tickers.get(symbol, Decimal('100'))
tickers_get(symbol) ==
    IF symbol = "BTC/USDT" THEN 50000
    ELSE IF symbol = "ETH/USDT" THEN 3000
    ELSE 100

\* symbol.split('/')[0] and symbol.split('/')[1]
base_currency(symbol) ==
    IF symbol = "BTC/USDT" THEN "BTC"
    ELSE IF symbol = "ETH/USDT" THEN "ETH"
    ELSE "XRP"

quote_currency(symbol) == "USDT"

\* balance.get(asset, Decimal('0')), and balance[asset] = v
balance_get(b, asset) == IF asset \in DOMAIN b THEN b[asset] ELSE 0

balance_set(b, asset, v) ==
    [k \in DOMAIN b \cup {asset} |-> IF k = asset THEN v ELSE b[k]]

\* variant for C8: the id leaves out the order counter
order_id_without_counter(counter, t) == <<1, t \div TicksPerSecond>>

\* f"{exchange_name}_{order_counter}_{int(time.time())}"
order_id_of(counter, t) == <<counter, t \div TicksPerSecond>>

\* variant for C7: an order that was not filled is not put in the table
track_order_filled_only(tbl, order) ==
    IF order.status = "new" THEN tbl
    ELSE [k \in DOMAIN tbl \cup {order.id} |-> IF k = order.id THEN order ELSE tbl[k]]

\* self.orders[order.id] = order
track_order(tbl, order) ==
    [k \in DOMAIN tbl \cup {order.id} |-> IF k = order.id THEN order ELSE tbl[k]]

get_tracked_order(tbl, order_id) ==
    IF order_id \in DOMAIN tbl THEN tbl[order_id] ELSE None

\* ids in dict (insertion) order: the order table is filled in counter order
RECURSIVE ids_in_order(_)
ids_in_order(S) ==
    IF S = {} THEN <<>>
    ELSE LET m == CHOOSE x \in S : \A y \in S : x[1] <= y[1]
         IN  <<m>> \o ids_in_order(S \ {m})

\* variant for C6: the supplied price is ignored
execution_price_ticker_only(price, current_price) == current_price

\* execution_price = price or current_price
execution_price_of(price, current_price) ==
    IF price # NoPrice THEN price ELSE current_price

\* Lines 628-677 of create_order, once _rate_limit() has let the call through
create_order_body(a) ==
    LET order_id == order_id_of(order_counter, now)
        current_price == tickers_get(a.symbol)
        execution_price == execution_price_of(a.price, current_price)
        order == Order(order_id, a.symbol, a.side, a.order_type, a.amount,
                       a.price, a.stop_price, now)
        filled == [update_fill(order, a.amount, execution_price,
                               a.amount * execution_price)
                      EXCEPT !.status = "filled"]
        base == base_currency(a.symbol)
        quote == quote_currency(a.symbol)
        cost == a.amount * execution_price * 10
        bought == balance_set(balance, base, balance_get(balance, base) + a.amount * 10)
        sold == balance_set(balance, base, balance_get(balance, base) - a.amount * 10)
        final == IF a.order_type = "market" THEN filled ELSE order
    IN  [orders |-> track_order(orders, final),
         order_counter |-> order_counter + 1,
         balance |->
            IF a.order_type # "market" THEN balance
            ELSE IF a.side = "buy"
                 THEN balance_set(bought, quote, balance_get(bought, quote) - cost)
                 ELSE balance_set(sold, quote, balance_get(sold, quote) + cost),
         notional |->
            [k \in DOMAIN notional \cup {order_id} |->
                IF k = order_id
                THEN (IF a.order_type = "market" THEN a.amount * execution_price ELSE 0)
                ELSE notional[k]],
         outcome |-> "ok",
         value |-> order_id]

\* Lines 682-694 of cancel_order
cancel_order_body(a) ==
    LET tracked == a.order_id \in DOMAIN orders
        ok == tracked /\ is_cancellable(get_tracked_order(orders, a.order_id))
    IN  [orders |-> IF ok THEN [orders EXCEPT ![a.order_id].status = "cancelled"]
                    ELSE orders,
         order_counter |-> order_counter,
         balance |-> balance,
         notional |-> notional,
         outcome |-> "ok",
         value |-> ok]

\* get_order, get_open_orders, get_order_history and get_balance: lines 696-733
get_open_orders(symbol) ==
    SelectSeq(ids_in_order(DOMAIN orders),
              LAMBDA id : is_active(orders[id])
                          /\ (symbol = None \/ orders[id].symbol = symbol))

\* all_orders.sort(key=created_at, reverse=True): newest first, ties in dict order
RECURSIVE newest_first(_)
newest_first(S) ==
    IF S = {} THEN <<>>
    ELSE LET m == CHOOSE x \in S : \A y \in S :
                      \/ orders[x].created_at > orders[y].created_at
                      \/ /\ orders[x].created_at = orders[y].created_at
                         /\ x[1] <= y[1]
         IN  <<m>> \o newest_first(S \ {m})

get_order_history(symbol, limit) ==
    LET all_orders == {id \in DOMAIN orders : symbol = None \/ orders[id].symbol = symbol}
        sorted == newest_first(all_orders)
    IN  SubSeq(sorted, 1, IF Len(sorted) < limit THEN Len(sorted) ELSE limit)

query_body(a) ==
    [orders |-> orders, order_counter |-> order_counter, balance |-> balance,
     notional |-> notional, outcome |-> "ok",
     value |-> CASE a.op = "get_order" -> get_tracked_order(orders, a.order_id)
                 [] a.op = "get_open_orders" -> get_open_orders(a.symbol)
                 [] a.op = "get_order_history" -> get_order_history(a.symbol, a.limit)
                 [] a.op = "get_balance" -> balance]

\* what a call does after `await self._rate_limit()'
Body(a) ==
    CASE a.op = "create_order" -> create_order_body(a)
      [] a.op = "cancel_order" -> cancel_order_body(a)
      [] OTHER -> query_body(a)

\* ------------------------------------------------------------ RateLimiter
\* asyncio.Semaphore as RateLimiter uses it.  S = [value, waiters, pc].
\* Semaphore._wake_up_next: hand a permit to the oldest waiter not yet woken
wake_up_next(S) ==
    LET waiting == {i \in 1..Len(S.waiters) : S.pc[S.waiters[i]] = "sem_wait"}
        first == CHOOSE i \in waiting : \A j \in waiting : i <= j
    IN  IF waiting = {} THEN S
        ELSE [value |-> S.value - 1,
              waiters |-> S.waiters,
              pc |-> [c \in Callers |->
                        IF c = S.waiters[first] THEN "woken" ELSE S.pc[c]]]

sem_release(S) == wake_up_next([value |-> S.value + 1, waiters |-> S.waiters, pc |-> S.pc])

Sem == [value |-> sem_value, waiters |-> sem_waiters, pc |-> pc]

NoReturn == [op |-> "none", call |-> NoCall, outcome |-> "none", value |-> None,
             ord |-> 0, slept |-> FALSE]

\* The call of caller c returns: the semaphore is in state S, its body has run.
Return(c, a, S, r, count, slept) ==
    /\ orders' = r.orders
    /\ order_counter' = r.order_counter
    /\ balance' = r.balance
    /\ notional' = r.notional
    /\ sem_value' = S.value
    /\ sem_waiters' = S.waiters
    /\ pc' = [x \in Callers |->
                IF x # c THEN S.pc[x]
                ELSE IF group[c] = NoGroup THEN "idle" ELSE "returned"]
    /\ call' = [call EXCEPT ![c] = NoCall]
    /\ wake_at' = [wake_at EXCEPT ![c] = 0]
    /\ ord' = [ord EXCEPT ![c] = 0]
    /\ last' = [op |-> a.op, call |-> a, outcome |-> r.outcome, value |-> r.value,
                ord |-> count, slept |-> slept]
    /\ admitted_at' = Append(admitted_at, now)
    /\ UNCHANGED <<connected, now, requests_per_second, group, outside_vars>>

\* RateLimiter.acquire from line 566 on, the caller holding a permit, and the
\* rest of the call when acquire does not sleep.
acquire(c, a, S) ==
    LET reset == now - last_reset >= TicksPerSecond
        lr == IF reset THEN now ELSE last_reset
        count == (IF reset THEN 0 ELSE request_count) + 1
    IN  /\ last_reset' = lr
        /\ request_count' = count
        /\ IF count >= requests_per_second
           THEN /\ pc' = [x \in Callers |-> IF x = c THEN "sleeping" ELSE S.pc[x]]
                /\ call' = [call EXCEPT ![c] = a]
                /\ wake_at' = [wake_at EXCEPT ![c] = now + (TicksPerSecond - (now - lr))]
                /\ ord' = [ord EXCEPT ![c] = count]
                /\ sem_value' = S.value
                /\ sem_waiters' = S.waiters
                /\ last' = NoReturn
                /\ UNCHANGED <<exec_vars, now, requests_per_second, group, admitted_at,
                               outside_vars>>
           ELSE Return(c, a, sem_release(S), Body(a), count, FALSE)

\* ------------------------------------------------------------ RiskManager
\* The floats of RiskManager are modelled as exact rationals [n, d] in lowest
\* terms (d > 0); a float division by zero raises ZeroDivisionError.
RECURSIVE GCD(_, _)
GCD(a, b) == IF b = 0 THEN a ELSE GCD(b, a % b)

Q(n, d) ==
    LET an == IF n < 0 THEN -n ELSE n
        ad == IF d < 0 THEN -d ELSE d
        g == GCD(an, ad)
        sgn == IF (n < 0) = (d < 0) THEN 1 ELSE -1
    IN  [n |-> sgn * (an \div g), d |-> ad \div g]

QInt(k) == [n |-> k, d |-> 1]
QMul(x, y) == Q(x.n * y.n, x.d * y.d)
QDiv(x, y) == Q(x.n * y.d, x.d * y.n)
QAdd(x, y) == Q(x.n * y.d + y.n * x.d, x.d * y.d)
QSub(x, y) == Q(x.n * y.d - y.n * x.d, x.d * y.d)
QAbs(x) == [n |-> IF x.n < 0 THEN -x.n ELSE x.n, d |-> x.d]
QLess(x, y) == x.n * y.d < y.n * x.d
QLeq(x, y) == x.n * y.d <= y.n * x.d
QMin(x, y) == IF QLess(y, x) THEN y ELSE x

\* round(x, ndigits): to the nearest multiple of 10^-ndigits, ties to even
QRound(x, ndigits) ==
    LET m == IF ndigits = 3 THEN 1000 ELSE IF ndigits = 2 THEN 100 ELSE 10
        v == x.n * m
        q == v \div x.d
        r == v % x.d
        up == 2 * r > x.d \/ (2 * r = x.d /\ q % 2 = 1)
    IN  Q(IF up THEN q + 1 ELSE q, m)

\* RiskManager.risk_limits[level]
risk_limits(level) ==
    IF level = "CONSERVATIVE"
    THEN [max_position_size |-> Q(5, 100), min_risk_reward |-> Q(2, 1),
          stop_loss_pct |-> Q(2, 100), max_concurrent_trades |-> 3]
    ELSE IF level = "MODERATE"
    THEN [max_position_size |-> Q(10, 100), min_risk_reward |-> Q(15, 10),
          stop_loss_pct |-> Q(5, 100), max_concurrent_trades |-> 5]
    ELSE [max_position_size |-> Q(20, 100), min_risk_reward |-> Q(1, 1),
          stop_loss_pct |-> Q(10, 100), max_concurrent_trades |-> 10]

\* risk_per_trade of RiskManager.__init__: 0.02
risk_per_trade == Q(2, 100)


\* risk_amount: Optional[float] = None
NoAmount == [n |-> 0, d |-> 0]
ZeroDivisionError(at) == [raised |-> "ZeroDivisionError", at |-> at]

\* variant for C14: no early return when the stop equals the entry, so that
\* risk_amount / risk_per_unit divides by zero
calculate_position_size_unguarded(capital, level, entry_price, stop_loss_price, risk_amount_arg) ==
    IF QAbs(QSub(entry_price, stop_loss_price)).n = 0
    THEN ZeroDivisionError("basic_position_size")
    ELSE [raised |-> "none", position_size |-> QInt(0), risk_metrics |-> <<>>]

\* RiskManager.calculate_position_size
calculate_position_size(capital, level, entry_price, stop_loss_price, risk_amount_arg) ==
    LET risk_amount == IF risk_amount_arg = NoAmount THEN QMul(capital, risk_per_trade)
                       ELSE risk_amount_arg
        risk_per_unit == QAbs(QSub(entry_price, stop_loss_price))
        basic_position_size == QDiv(risk_amount, risk_per_unit)
        \* kelly_fraction = win_rate - ((1 - win_rate) / avg_win), 0.55 and 2.0
        kelly_fraction == QSub(Q(55, 100), QDiv(QSub(QInt(1), Q(55, 100)), QInt(2)))
        kelly_position_size == QDiv(QMul(capital, kelly_fraction), risk_per_unit)
        max_position_by_capital == QMul(capital, risk_limits(level).max_position_size)
        max_position_by_price == QDiv(max_position_by_capital, entry_price)
        smallest == QMin(QMin(basic_position_size, kelly_position_size),
                         max_position_by_price)
        position_size == IF QLess(QInt(1000), entry_price) THEN QRound(smallest, 3)
                         ELSE IF QLess(QInt(100), entry_price) THEN QRound(smallest, 2)
                         ELSE QRound(smallest, 1)
    IN  IF risk_per_unit.n = 0
        THEN [raised |-> "none", position_size |-> QInt(0), risk_metrics |-> <<>>]
        ELSE IF entry_price.n = 0 THEN ZeroDivisionError("max_position_by_price")
        ELSE IF capital.n = 0 THEN ZeroDivisionError("position_percentage")
        ELSE [raised |-> "none",
              position_size |-> position_size,
              risk_metrics |->
                 [basic_position_size |-> basic_position_size,
                  kelly_position_size |-> kelly_position_size,
                  max_allowed_position |-> max_position_by_price,
                  risk_per_trade |-> risk_amount,
                  risk_per_unit |-> risk_per_unit,
                  position_size |-> position_size,
                  position_value |-> QMul(position_size, entry_price),
                  position_percentage |->
                      QMul(QDiv(QMul(position_size, entry_price), capital), QInt(100))]]

\* variant for C12: the exposure of the existing positions is left out
exposure_without_positions(positions) == QInt(0)

\* sum(pos.position_size * pos.current_price for pos in existing_positions.values())
RECURSIVE exposure_of(_)
exposure_of(positions) ==
    IF positions = <<>> THEN QInt(0)
    ELSE QAdd(QMul(Head(positions).position_size, Head(positions).current_price),
              exposure_of(Tail(positions)))

\* RiskManager.validate_trade; each message is modelled by the rule it reports
validate_trade(capital, level, entry_price, stop_loss, take_profit, position_value, existing_positions) ==
    LET limits == risk_limits(level)
        \* 1. position size against capital
        position_percentage == QMul(QDiv(position_value, capital), QInt(100))
        max_position_pct == QMul(limits.max_position_size, QInt(100))
        errors1 == IF QLess(max_position_pct, position_percentage)
                   THEN <<"position_size">> ELSE <<>>
        \* 2. risk-reward ratio
        risk == QAbs(QSub(entry_price, stop_loss))
        reward == QAbs(QSub(take_profit, entry_price))
        errors2 == IF risk.n > 0
                   THEN IF QLess(QDiv(reward, risk), limits.min_risk_reward)
                        THEN <<"risk_reward">> ELSE <<>>
                   ELSE <<"invalid_stop_loss">>
        \* 3. maximum concurrent trades
        errors3 == IF Len(existing_positions) >= limits.max_concurrent_trades
                   THEN <<"max_concurrent_trades">> ELSE <<>>
        \* 4. portfolio concentration
        total_exposure == QAdd(exposure_of(existing_positions), position_value)
        concentration_limit == QMul(capital, Q(8, 10))
        errors4 == IF QLess(concentration_limit, total_exposure)
                   THEN <<"exposure">> ELSE <<>>
        \* 5. stop loss distance
        stop_loss_pct == QDiv(QAbs(QSub(entry_price, stop_loss)), entry_price)
        errors5 == IF QLess(limits.stop_loss_pct, stop_loss_pct)
                   THEN <<"stop_loss_distance">> ELSE <<>>
        \* 6. daily loss limit
        daily_loss_limit == QMul(capital, Q(5, 100))
        estimated_loss == QMul(position_value, stop_loss_pct)
        errors6 == IF QLess(daily_loss_limit, estimated_loss)
                   THEN <<"daily_loss">> ELSE <<>>
        errors == errors1 \o errors2 \o errors3 \o errors4 \o errors5 \o errors6
    IN  IF capital.n = 0 THEN ZeroDivisionError("position_percentage")
        ELSE IF entry_price.n = 0 THEN ZeroDivisionError("stop_loss_pct")
        ELSE [raised |-> "none", ok |-> Len(errors) = 0, errors |-> errors]


\* RiskManager.__init__(initial_capital, risk_level=level)
RiskConstructed(initial_capital, level) ==
    /\ current_capital = initial_capital
    /\ risk_level = level
    /\ risk_last = [op |-> "none"]
    /\ risk_positions = <<>>

\* RiskManager(): initial_capital 10000.0, RiskLevel.MODERATE
RiskDefault == RiskConstructed(QInt(10000), "MODERATE")


\* the PositionRisk update_position_risk builds (last_updated, the time of
\* the call, left out)
PositionRisk(symbol, position_size, entry_price, current_price, stop_loss, take_profit, volatility) ==
    LET risk == QAbs(QSub(entry_price, stop_loss))
        reward == QAbs(QSub(take_profit, entry_price))
    IN  [symbol |-> symbol, position_size |-> position_size,
         entry_price |-> entry_price, current_price |-> current_price,
         stop_loss |-> stop_loss, take_profit |-> take_profit,
         volatility |-> volatility,
         value_at_risk |-> QMul(QMul(QMul(position_size, current_price), volatility),
                                Q(165, 100)),
         expected_loss |-> QMul(position_size, risk),
         risk_reward_ratio |-> IF QLess(QInt(0), risk) THEN QDiv(reward, risk)
                               ELSE QInt(0),
         margin_requirement |-> QMul(QMul(position_size, current_price), Q(1, 10))]

\* positions with positions[symbol] = position_risk
put(positions, symbol, position_risk) ==
    [s \in DOMAIN positions \cup {symbol} |->
        IF s = symbol THEN position_risk ELSE positions[s]]

\* variant for C26: a call without volatility keeps the value at risk of the
\* entry it replaces
update_position_risk_patched(positions, symbol, position_size, entry_price, current_price, stop_loss, take_profit, volatility) ==
    LET built == PositionRisk(symbol, position_size, entry_price, current_price,
                              stop_loss, take_profit, volatility)
    IN  IF symbol \in DOMAIN positions /\ volatility.n = 0
        THEN put(positions, symbol,
                 [built EXCEPT !.value_at_risk = positions[symbol].value_at_risk])
        ELSE put(positions, symbol, built)

\* RiskManager.update_position_risk: self.positions[symbol] = position_risk
update_position_risk(positions, symbol, position_size, entry_price, current_price, stop_loss, take_profit, volatility) ==
    put(positions, symbol,
        PositionRisk(symbol, position_size, entry_price, current_price,
                     stop_loss, take_profit, volatility))

\* ------------------------------------------------------ risk.RiskManager
\* The config-based RiskManager of src/src/risk/__init__.py; its floats are
\* exact rationals as above.

\* the config RiskManager() gives itself
default_config ==
    [max_position_size |-> QInt(1000), max_daily_loss |-> QInt(500),
     max_open_positions |-> 5, max_leverage |-> QInt(10),
     stop_loss_percentage |-> QInt(2), take_profit_percentage |-> QInt(5),
     risk_per_trade |-> Q(2, 100)]

\* variant for C24: the limit on open positions is compared with > instead of >=
can_open_position_lax(cfg, open, pnl_today, size, price, leverage) ==
    LET position_value == QMul(QMul(size, price), leverage)
        risk_amount == QMul(position_value, cfg.risk_per_trade)
        refused(reason) == [allowed |-> FALSE, reason |-> reason,
                            position_value |-> position_value, risk_amount |-> risk_amount]
    IN  IF QLess(cfg.max_position_size, position_value)
        THEN refused("Position value exceeds max")
        ELSE IF QLess(cfg.max_leverage, leverage)
        THEN refused("Leverage exceeds max")
        ELSE IF Len(open) > cfg.max_open_positions
        THEN refused("Open positions exceed max")
        ELSE IF QLess(pnl_today, QSub(QInt(0), cfg.max_daily_loss))
        THEN refused("Daily loss exceeds limit")
        ELSE IF QLess(QMul(cfg.max_position_size, Q(1, 10)), risk_amount)
        THEN refused("Risk per trade too high")
        ELSE [allowed |-> TRUE, reason |-> "",
              position_value |-> position_value, risk_amount |-> risk_amount]

\* RiskManager.can_open_position; each reason is the message without its numbers
can_open_position(cfg, open, pnl_today, size, price, leverage) ==
    LET position_value == QMul(QMul(size, price), leverage)
        risk_amount == QMul(position_value, cfg.risk_per_trade)
        refused(reason) == [allowed |-> FALSE, reason |-> reason,
                            position_value |-> position_value, risk_amount |-> risk_amount]
    IN  IF QLess(cfg.max_position_size, position_value)
        THEN refused("Position value exceeds max")
        ELSE IF QLess(cfg.max_leverage, leverage)
        THEN refused("Leverage exceeds max")
        ELSE IF Len(open) >= cfg.max_open_positions
        THEN refused("Open positions exceed max")
        ELSE IF QLess(pnl_today, QSub(QInt(0), cfg.max_daily_loss))
        THEN refused("Daily loss exceeds limit")
        ELSE IF QLess(QMul(cfg.max_position_size, Q(1, 10)), risk_amount)
        THEN refused("Risk per trade too high")
        ELSE [allowed |-> TRUE, reason |-> "",
              position_value |-> position_value, risk_amount |-> risk_amount]

\* RiskManager.calculate_position_size of risk/__init__.py
sized_position(cfg, capital, entry_price, stop_loss_price, risk_percentage) ==
    LET risk_pct == IF risk_percentage.n = 0 THEN cfg.risk_per_trade ELSE risk_percentage
        risk_amount == QMul(capital, risk_pct)
        price_diff == QAbs(QSub(entry_price, stop_loss_price))
    IN  IF price_diff.n = 0
        THEN [raised |-> "none", error |-> "Stop loss price equals entry price",
              position_size |-> QInt(0), risk_amount |-> risk_amount]
        ELSE IF entry_price.n = 0
        THEN ZeroDivisionError("max_position_size")
        ELSE LET position_size == QDiv(risk_amount, price_diff)
                 max_position_size == QDiv(cfg.max_position_size, entry_price)
                 capped == QLess(max_position_size, position_size)
                 final == IF capped THEN max_position_size ELSE position_size
             IN  [raised |-> "none", error |-> "",
                  position_size |-> final,
                  risk_amount |-> IF capped THEN QMul(final, price_diff) ELSE risk_amount,
                  risk_percentage |-> risk_pct,
                  stop_loss_percentage |-> QMul(QDiv(price_diff, entry_price), QInt(100)),
                  position_value |-> QMul(final, entry_price)]

\* the position dict add_position builds, with the default stop and target
new_position(cfg, position_id, symbol, size, entry_price, position_type, leverage) ==
    LET sl == QDiv(cfg.stop_loss_percentage, QInt(100))
        tp == QDiv(cfg.take_profit_percentage, QInt(100))
    IN  [id |-> position_id, symbol |-> symbol, size |-> size,
         entry_price |-> entry_price, current_price |-> entry_price,
         position_type |-> position_type, leverage |-> leverage,
         stop_loss |-> IF position_type = "long"
                       THEN QMul(entry_price, QSub(QInt(1), sl))
                       ELSE QMul(entry_price, QAdd(QInt(1), sl)),
         take_profit |-> IF position_type = "long"
                         THEN QMul(entry_price, QAdd(QInt(1), tp))
                         ELSE QMul(entry_price, QSub(QInt(1), tp)),
         pnl |-> QInt(0), pnl_percentage |-> QInt(0), status |-> "open"]

\* RiskManager.add_position: self.open_positions.append(position)
add_position(cfg, open, position) == Append(open, position)

\* the first open position with this id, 0 when there is none
position_index(open, position_id) ==
    LET found == {i \in 1..Len(open) : open[i].id = position_id}
    IN  IF found = {} THEN 0 ELSE CHOOSE i \in found : \A j \in found : i <= j

pnl_at(position, price) ==
    IF position.position_type = "long"
    THEN QMul(QSub(price, position.entry_price), position.size)
    ELSE QMul(QSub(position.entry_price, price), position.size)

status_at(position, current_price) ==
    IF position.position_type = "long"
    THEN IF QLeq(current_price, position.stop_loss) THEN "stopped"
         ELSE IF QLeq(position.take_profit, current_price) THEN "taken"
         ELSE position.status
    ELSE IF QLeq(position.stop_loss, current_price) THEN "stopped"
         ELSE IF QLeq(current_price, position.take_profit) THEN "taken"
         ELSE position.status

\* RiskManager.update_position_price
update_position_price(open, position_id, current_price) ==
    LET i == position_index(open, position_id)
        cost == QMul(open[i].entry_price, open[i].size)
        pnl == pnl_at(open[i], current_price)
        priced == [open[i] EXCEPT !.current_price = current_price]
        updated == [priced EXCEPT !.pnl = pnl,
                                  !.pnl_percentage = QMul(QDiv(pnl, cost), QInt(100)),
                                  !.status = status_at(open[i], current_price)]
    IN  IF i = 0    \* not found: return {}
        THEN [open_positions |-> open, value |-> [empty |-> TRUE, raised |-> "none"]]
        ELSE IF cost.n = 0
        THEN [open_positions |-> [open EXCEPT ![i] = priced],
              value |-> [empty |-> TRUE, raised |-> "ZeroDivisionError"]]
        ELSE [open_positions |-> [open EXCEPT ![i] = updated],
              value |-> [empty |-> FALSE, raised |-> "none", position |-> updated]]

\* variant for C30: a closed trade is counted as won or lost only when its pnl is not 0
count_unless_flat(stats, pnl) ==
    [stats EXCEPT !.total_pnl = QAdd(@, pnl),
                  !.total_trades = @ + 1,
                  !.winning_trades = IF QLess(QInt(0), pnl) THEN @ + 1 ELSE @,
                  !.losing_trades = IF QLess(pnl, QInt(0)) THEN @ + 1 ELSE @]

\* close_position: "Update daily stats"
count_trade(stats, pnl) ==
    [stats EXCEPT !.total_pnl = QAdd(@, pnl),
                  !.total_trades = @ + 1,
                  !.winning_trades = IF QLess(QInt(0), pnl) THEN @ + 1 ELSE @,
                  !.losing_trades = IF QLess(QInt(0), pnl) THEN @ ELSE @ + 1]

\* self.open_positions.pop(i)
pop(open, i) == [j \in 1..(Len(open) - 1) |-> IF j < i THEN open[j] ELSE open[j + 1]]

\* RiskManager.close_position on the state t = [open_positions, trade_history,
\* today_pnl, daily_stats]
close_position(t, position_id, exit_price) ==
    LET open == t.open_positions
        i == position_index(open, position_id)
        cost == QMul(open[i].entry_price, open[i].size)
        pnl == pnl_at(open[i], exit_price)
        closed_trade == [position |-> open[i], exit_price |-> exit_price,
                         final_pnl |-> pnl,
                         final_pnl_percentage |-> QMul(QDiv(pnl, cost), QInt(100)),
                         status |-> "closed"]
    IN  IF i = 0 THEN [state |-> t, value |-> [empty |-> TRUE, raised |-> "none"]]
        ELSE IF cost.n = 0
        THEN [state |-> t, value |-> [empty |-> TRUE, raised |-> "ZeroDivisionError"]]
        ELSE [state |-> [open_positions |-> pop(open, i),
                         trade_history |-> Append(t.trade_history, closed_trade),
                         today_pnl |-> QAdd(t.today_pnl, pnl),
                         daily_stats |-> count_trade(t.daily_stats, pnl)],
              value |-> [empty |-> FALSE, raised |-> "none", trade |-> closed_trade]]

\* the daily_stats of __init__ and of reset_daily_stats (the date left out)
NoStats ==
    [total_trades |-> 0, winning_trades |-> 0, losing_trades |-> 0,
     total_pnl |-> QInt(0), max_drawdown |-> QInt(0)]

\* RiskManager(cfg)
TrackerConstructed(cfg) ==
    /\ config = cfg
    /\ open_positions = <<>>
    /\ trade_history = <<>>
    /\ today_pnl = QInt(0)
    /\ daily_stats = NoStats
    /\ approved = {}
    /\ pos_last = [op |-> "none"]

\* RiskManager()
TrackerDefault == TrackerConstructed(default_config)

\* ------------------------------------------------------- SmartOrderRouter
\* The venues are executors that also answer get_ticker(); their orders are
\* market orders created as MockOrderExecutor.create_order creates them.
\* Routed amounts are counted in units of 0.0001, so that 30% of an amount
\* that is a multiple of 0.001 is a whole number of units.  The venues' rate
\* limiters only delay a call and are left out: the router waits at
\* pc = "order" for as long as create_order is suspended.
NumVenues == 2

\* Decimal('0.001')
min_chunk == 10

\* best_exchange = None
NoVenue == 0

Venues == 1..NumVenues

\* get_ticker() raised (an executor that has no get_ticker among them)
TickerError == [raises |-> TRUE, has_quotes |-> FALSE, last_price |-> 0, bid |-> 0, ask |-> 0]

\* data.MarketData.Ticker: an ask or bid of 0 is a side without a quote
Ticker(last_price, bid, ask) ==
    [raises |-> FALSE, has_quotes |-> TRUE, last_price |-> last_price, bid |-> bid, ask |-> ask]

\* an answer that has a last_price and no ask or bid attribute
LastPriceOnly(last_price) ==
    [raises |-> FALSE, has_quotes |-> FALSE, last_price |-> last_price, bid |-> 0, ask |-> 0]

\* ticker.ask if hasattr(ticker, 'ask') else ticker.last_price, and the same
\* with bid for a sell
ticker_price(ticker, side) ==
    IF ~ticker.has_quotes THEN ticker.last_price
    ELSE IF side = "buy" THEN ticker.ask ELSE ticker.bid

NoBest == [exchange |-> NoVenue, price |-> 0]

\* One round of the loop of find_best_execution.  Decimal(str(price)) keeps
\* the value of the prices used here (floats with a short decimal repr).
consider(best, exchange_name, ticker, side) ==
    IF ticker.raises THEN best
    ELSE LET price == ticker_price(ticker, side)
         IN  IF /\ price # 0
                /\ \/ best.exchange = NoVenue
                   \/ side = "buy" /\ price < best.price
                   \/ side = "sell" /\ price > best.price
             THEN [exchange |-> exchange_name, price |-> price]
             ELSE best

\* variant for C20: the whole remaining amount goes to one venue
chunk_amount_uncapped(remaining_amount, amount) == remaining_amount

\* min(remaining_amount, amount * Decimal('0.3'))
chunk_amount(remaining_amount, amount) ==
    IF remaining_amount <= (amount * 3) \div 10 THEN remaining_amount
    ELSE (amount * 3) \div 10

\* ExecutionReport(...) of a filled order
ExecutionReport(order) ==
    [order_id |-> order.id, symbol |-> order.symbol, side |-> order.side,
     executed_amount |-> order.filled_amount, executed_price |-> order.average_price,
     commission |-> order.commission]

\* MockOrderExecutor.create_order on the venue whose state is x, past the
\* connection check and the rate limiter
venue_create_order(x, exchange_name, a) ==
    LET order_id == <<exchange_name, x.order_counter, now \div TicksPerSecond>>
        current_price == tickers_get(a.symbol)
        execution_price == execution_price_of(a.price, current_price)
        order == Order(order_id, a.symbol, a.side, a.order_type, a.amount,
                       a.price, NoPrice, now)
        filled == [update_fill(order, a.amount, execution_price,
                               a.amount * execution_price)
                      EXCEPT !.status = "filled"]
        final == IF a.order_type = "market" THEN filled ELSE order
        base == base_currency(a.symbol)
        quote == quote_currency(a.symbol)
        cost == a.amount * execution_price
        bought == balance_set(x.balance, base, balance_get(x.balance, base) + a.amount)
        sold == balance_set(x.balance, base, balance_get(x.balance, base) - a.amount)
    IN  [venue |-> [connected |-> x.connected,
                    order_counter |-> x.order_counter + 1,
                    orders |-> Append(x.orders, final),
                    balance |->
                        IF a.order_type # "market" THEN x.balance
                        ELSE IF a.side = "buy"
                             THEN balance_set(bought, quote, balance_get(bought, quote) - cost)
                             ELSE balance_set(sold, quote, balance_get(sold, quote) + cost)],
         order |-> final]

RouterIdle ==
    [pc |-> "idle", op |-> "none", symbol |-> "", side |-> "", amount |-> 0,
     order_type |-> "", price |-> NoPrice, remaining_amount |-> 0, reports |-> <<>>,
     i |-> 0, best |-> NoBest, seen |-> <<>>,
     exchange_name |-> NoVenue, chunk_amount |-> 0, order_price |-> NoPrice]

Nothing == [is |-> FALSE]

NoRouterStep == [find |-> Nothing, sent |-> Nothing, order |-> Nothing, returned |-> Nothing]

\* find_best_execution starts: the first venue is asked for its ticker
begin_find(r) == [r EXCEPT !.pc = "ticker", !.i = 1, !.best = NoBest, !.seen = <<>>]

\* execute_with_smart_routing at `while remaining_amount > min_chunk`
while_loop(r, step) ==
    IF r.remaining_amount > min_chunk
    THEN [router |-> begin_find(r), step |-> step]
    ELSE [router |-> RouterIdle,
          step |-> [step EXCEPT !.returned =
                      [is |-> TRUE, op |-> r.op, amount |-> r.amount,
                       order_type |-> r.order_type, value |-> r.reports,
                       remaining_amount |-> r.remaining_amount, no_venue |-> FALSE]]]

\* execute_with_smart_routing from the return of find_best_execution to its
\* next await: the break, or the call of create_order, which raises at once
\* on a venue that is not connected
after_find(r, best, step) ==
    IF best.exchange = NoVenue
    THEN [router |-> RouterIdle,
          step |-> [step EXCEPT !.returned =
                      [is |-> TRUE, op |-> r.op, amount |-> r.amount,
                       order_type |-> r.order_type, value |-> r.reports,
                       remaining_amount |-> r.remaining_amount, no_venue |-> TRUE]]]
    ELSE LET chunk == chunk_amount(r.remaining_amount, r.amount)
             sent == [is |-> TRUE, exchange_name |-> best.exchange, amount |-> chunk,
                      remaining_amount |-> r.remaining_amount, total |-> r.amount,
                      price |-> execution_price_of(r.price, best.price)]
         IN  IF ~exchanges[best.exchange].connected
             THEN while_loop(r, [step EXCEPT !.sent = sent])
             ELSE [router |-> [r EXCEPT !.pc = "order",
                                        !.exchange_name = best.exchange,
                                        !.chunk_amount = chunk,
                                        !.order_price = sent.price],
                   step |-> [step EXCEPT !.sent = sent]]

\* MockOrderExecutor.__init__ of a venue, its balance in units of 0.0001
\* SmartOrderRouter([...]) over executors just built
RouterDefault ==
    /\ exchanges = [v \in Venues |->
                       [connected |-> FALSE, order_counter |-> 1, orders |-> <<>>,
                        balance |-> [a \in {"USDT", "BTC", "ETH"} |->
                                       IF a = "USDT" THEN 100000000
                                       ELSE IF a = "BTC" THEN 5000 ELSE 50000]]]
    /\ quotes = [v \in Venues |-> TickerError]
    /\ router = RouterIdle
    /\ router_last = NoRouterStep

\* ---------------------------------------------------------------- actions
\* connect(), after its simulated delay
Connect ==
    /\ connected' = TRUE
    /\ last' = NoReturn
    /\ UNCHANGED <<orders, order_counter, balance, notional, now, limiter_vars,
                   caller_vars, admitted_at, outside_vars>>

Disconnect ==
    /\ connected' = FALSE
    /\ last' = NoReturn
    /\ UNCHANGED <<orders, order_counter, balance, notional, now, limiter_vars,
                   caller_vars, admitted_at, outside_vars>>

\* create_order raises before it reaches the rate limiter (lines 623-624)
RaiseNotConnected(c, a) ==
    /\ last' = [op |-> a.op, call |-> a, outcome |-> "ConnectionError",
                value |-> None, ord |-> 0, slept |-> FALSE]
    /\ pc' = [pc EXCEPT ![c] = IF group[c] = NoGroup THEN @ ELSE "returned"]
    /\ UNCHANGED <<exec_vars, now, limiter_vars, call, wake_at, ord, group, admitted_at,
                   outside_vars>>

\* semaphore.acquire() finds the semaphore locked and queues the caller
Enqueue(c, a) ==
    /\ sem_waiters' = Append(sem_waiters, c)
    /\ pc' = [pc EXCEPT ![c] = "sem_wait"]
    /\ call' = [call EXCEPT ![c] = a]
    /\ last' = NoReturn
    /\ UNCHANGED <<exec_vars, now, last_reset, request_count, requests_per_second,
                   sem_value, wake_at, ord, group, admitted_at, outside_vars>>

\* An executor operation is entered; it runs up to its first suspension.
Invoke(c, a) ==
    IF a.op = "create_order" /\ ~connected
    THEN RaiseNotConnected(c, a)
    ELSE IF sem_value = 0 \/ Len(sem_waiters) > 0    \* Semaphore.locked()
         THEN Enqueue(c, a)
         ELSE acquire(c, a, [value |-> sem_value - 1, waiters |-> sem_waiters, pc |-> pc])

\* Caller c calls an executor operation.
Call(c, a) ==
    /\ pc[c] = "idle"
    /\ Invoke(c, a)

\* A woken waiter resumes inside semaphore.acquire() (it already has the permit)
SemResume(c) ==
    /\ pc[c] = "woken"
    /\ LET left == SelectSeq(sem_waiters, LAMBDA x : x # c)
           S0 == [value |-> sem_value, waiters |-> left, pc |-> pc]
           S1 == IF S0.value > 0 THEN wake_up_next(S0) ELSE S0
       IN  acquire(c, call[c], S1)

\* asyncio.sleep ends: semaphore.release(), acquire() returns, the body runs
SleepDone(c) ==
    /\ pc[c] = "sleeping"
    /\ now >= wake_at[c]
    /\ Return(c, call[c], sem_release(Sem), Body(call[c]), ord[c], TRUE)
    /\ UNCHANGED <<last_reset, request_count>>

\* A fill reported for a tracked order: Order.update_fill
UpdateFill(id, fill_amount, fill_price) ==
    /\ id \in DOMAIN orders
    /\ orders' = [orders EXCEPT ![id] = update_fill(@, fill_amount, fill_price, 0)]
    /\ notional' = [notional EXCEPT ![id] = @ + fill_price * fill_amount]
    /\ last' = NoReturn
    /\ UNCHANGED <<connected, order_counter, balance, now, limiter_vars,
                   caller_vars, admitted_at, outside_vars>>

\* Time passes.  The event loop runs every callback that is ready (a woken
\* waiter, a sleep that has ended) before it waits for the clock again.
Tick ==
    /\ now < MaxTime
    /\ \A c \in Callers : pc[c] # "woken" /\ (pc[c] = "sleeping" => wake_at[c] > now)
    /\ now' = now + 1
    /\ admitted_at' = SelectSeq(admitted_at, LAMBDA t : t > now + 1 - TicksPerSecond)
    /\ last' = NoReturn
    /\ UNCHANGED <<exec_vars, limiter_vars, caller_vars, outside_vars>>

\* ------------------------------------------------ OCO, bracket and batch
\* A group call (create_oco_order, create_bracket_order, batch_create_orders,
\* batch_cancel_orders) makes its create_order / cancel_order calls one after
\* the other.  group[c] = the call with its arguments, the index of the call
\* it is at (leg) and what the calls before returned (results).  A caller at
\* "running" is about to make the next call, one at "returned" has it back;
\* neither has yielded to the event loop, so no other task runs in between.
Quiet == \A c \in Callers : pc[c] \notin {"running", "returned"}

\* variant for C17: the exit orders take the side of the entry
opposite_unchanged(side) == side

opposite(side) == IF side = "buy" THEN "sell" ELSE "buy"

\* the call that leg g.leg of the group call g makes
leg_call(g) ==
    IF g.op = "create_oco_order"
    THEN IF g.leg = 1
         THEN [op |-> "create_order", symbol |-> g.symbol, side |-> g.side,
               order_type |-> "limit", amount |-> g.amount, price |-> g.price,
               stop_price |-> NoPrice]
         ELSE [op |-> "create_order", symbol |-> g.symbol, side |-> g.side,
               order_type |-> IF g.stop_limit_price # NoPrice THEN "stop_limit"
                              ELSE "stop_market",
               amount |-> g.amount,
               price |-> IF g.stop_limit_price # NoPrice THEN g.stop_limit_price
                         ELSE NoPrice,
               stop_price |-> g.stop_price]
    ELSE IF g.op = "create_bracket_order"
    THEN IF g.leg = 1
         THEN [op |-> "create_order", symbol |-> g.symbol, side |-> g.side,
               order_type |-> "limit", amount |-> g.amount, price |-> g.entry_price,
               stop_price |-> NoPrice]
         ELSE IF g.leg = 2
         THEN [op |-> "create_order", symbol |-> g.symbol, side |-> opposite(g.side),
               order_type |-> "limit", amount |-> g.amount,
               price |-> g.take_profit_price, stop_price |-> NoPrice]
         ELSE [op |-> "create_order", symbol |-> g.symbol, side |-> opposite(g.side),
               order_type |-> g.stop_loss_type, amount |-> g.amount,
               price |-> IF g.stop_loss_type = "stop_market" THEN NoPrice
                         ELSE g.stop_loss_price,
               stop_price |-> g.stop_loss_price]
    ELSE IF g.op = "batch_create_orders" THEN g.orders[g.leg]
    ELSE [op |-> "cancel_order", order_id |-> g.order_ids[g.leg]]

\* variant for C16: the tag is not stored
set_tag_dropped(o, key, v) == o

\* order.tags[key] = v
set_tag(o, key, v) ==
    [o EXCEPT !.tags = [k \in DOMAIN o.tags \cup {key} |->
                           IF k = key THEN v ELSE o.tags[k]]]

\* str(uuid.uuid4()): a value no other call draws; the id of the group's
\* entry order, which no other group has, stands for it

\* the tags create_oco_order / create_bracket_order put on their orders
link_orders(tbl, g, ids) ==
    IF g.op = "create_oco_order"
    THEN [k \in DOMAIN tbl |->
            IF k = ids[1] THEN set_tag(tbl[k], "oco_pair", ids[2])
            ELSE IF k = ids[2] THEN set_tag(tbl[k], "oco_pair", ids[1])
            ELSE tbl[k]]
    ELSE [k \in DOMAIN tbl |->
            IF k \in {ids[1], ids[2], ids[3]}
            THEN set_tag(set_tag(tbl[k], "bracket_id", <<"uuid4", ids[1]>>),
                         "bracket_orders", ids)
            ELSE tbl[k]]

\* Caller c enters the group call g
Begin(c, g) ==
    /\ pc[c] = "idle"
    /\ pc' = [pc EXCEPT ![c] = "running"]
    /\ group' = [group EXCEPT ![c] = g]
    /\ last' = NoReturn
    /\ UNCHANGED <<exec_vars, now, limiter_vars, call, wake_at, ord, admitted_at,
                   outside_vars>>

\* The group call of caller c makes its next call
Leg(c) ==
    /\ pc[c] = "running"
    /\ LET a == leg_call(group[c])
       IN  IF a = [op |-> "malformed"]    \* create_order(**order_params) rejects it
           THEN /\ pc' = [pc EXCEPT ![c] = "returned"]
                /\ last' = [op |-> "create_order", call |-> a, outcome |-> "TypeError",
                            value |-> None, ord |-> 0, slept |-> FALSE]
                /\ UNCHANGED <<exec_vars, now, limiter_vars, call, wake_at, ord, group,
                               admitted_at, outside_vars>>
           ELSE Invoke(c, a)

\* The group call of caller c has its call back (last): it keeps the result
\* and goes on to the next call, or links its orders and returns, or raises.
Collect(c) ==
    /\ pc[c] = "returned"
    /\ LET g == group[c]
           ok == last.outcome = "ok"
           linked == g.op \in {"create_oco_order", "create_bracket_order"}
           results ==
               IF g.op = "batch_cancel_orders"
               THEN [k \in DOMAIN g.results \cup {last.call.order_id} |->
                        IF k = last.call.order_id
                        THEN (IF ok THEN last.value ELSE FALSE)
                        ELSE g.results[k]]
               ELSE IF ok THEN Append(g.results, last.value) ELSE g.results
           raises == linked /\ ~ok
           legs == IF g.op = "create_oco_order" THEN 2
                   ELSE IF g.op = "create_bracket_order" THEN 3
                   ELSE IF g.op = "batch_create_orders" THEN Len(g.orders)
                   ELSE Len(g.order_ids)
           more == ~raises /\ g.leg < legs
       IN  /\ pc' = [pc EXCEPT ![c] = IF more THEN "running" ELSE "idle"]
           /\ group' = [group EXCEPT ![c] =
                           IF more THEN [g EXCEPT !.leg = @ + 1, !.results = results]
                           ELSE NoGroup]
           /\ orders' = IF linked /\ ~raises /\ ~more
                        THEN link_orders(orders, g, results) ELSE orders
           /\ last' = IF more THEN NoReturn
                      ELSE [op |-> g.op, call |-> g,
                            outcome |-> IF raises THEN last.outcome ELSE "ok",
                            value |-> IF raises THEN None ELSE results,
                            ord |-> 0, slept |-> FALSE]
           /\ UNCHANGED <<connected, order_counter, balance, notional, now, limiter_vars,
                          call, wake_at, ord, admitted_at, outside_vars>>


\* ------------------------------------------------------------------ inputs
UnknownId == <<0, 0>>

CreateArgs(symbols, sides, types, amounts, prices) ==
    [op : {"create_order"}, symbol : symbols, side : sides, order_type : types,
     amount : amounts, price : prices, stop_price : {NoPrice}]

\* with the create_order calls that are suspended in the rate limiter
MayCreate ==
    order_counter + Cardinality({c \in Callers : call[c].op = "create_order"}) <= MaxOrders

\* the calls of one burst: fewer than the limiter's quota, so none sleeps
MayCall == request_count < MaxCalls

\* MockOrderExecutor.__init__ (with OrderExecutor.__init__ and
\* RateLimiter.__init__), the limiter built for n requests per second
Constructed(n) ==
    /\ connected = FALSE
    /\ orders = <<>>
    /\ order_counter = 1
    /\ balance = [a \in {"USDT", "BTC", "ETH"} |->
                    IF a = "USDT" THEN 100000 ELSE IF a = "BTC" THEN 5 ELSE 50]
    /\ now = 0
    /\ last_reset = 0
    /\ request_count = 0
    /\ requests_per_second = n
    /\ sem_value = n
    /\ sem_waiters = <<>>
    /\ pc = [c \in Callers |-> "idle"]
    /\ call = [c \in Callers |-> NoCall]
    /\ wake_at = [c \in Callers |-> 0]
    /\ group = [c \in Callers |-> NoGroup]
    /\ ord = [c \in Callers |-> 0]
    /\ last = NoReturn
    /\ admitted_at = <<>>
    /\ notional = <<>>

\* ------------------------------------------ Spec: the executor's operations
\* One task drives a default executor (RateLimiter(): 10 requests per second)
\* with bursts of fewer than 10 calls.
Init == Constructed(DefaultRequestsPerSecond) /\ RiskDefault /\ RouterDefault /\ TrackerDefault

Create(c) ==
    /\ MayCreate /\ MayCall
    /\ \E a \in CreateArgs({"BTC/USDT"}, {"buy"}, {"market", "limit"}, {2}, {200})
                   \cup CreateArgs({"XRP/USDT"}, {"sell"}, {"limit"}, {2}, {200}) :
          Call(c, a)

Cancel(c) ==
    /\ MayCall
    /\ \E a \in [op : {"cancel_order"}, order_id : DOMAIN orders \cup {UnknownId}] :
          Call(c, a)

Query(c) ==
    /\ MayCall
    /\ \E a \in [op : {"get_order"}, order_id : DOMAIN orders \cup {UnknownId}]
               \cup [op : {"get_open_orders"}, symbol : {None, "BTC/USDT"}]
               \cup [op : {"get_order_history"}, symbol : {None, "BTC/USDT"}, limit : {1}]
               \cup [op : {"get_balance"}] :
          Call(c, a)

Fill ==
    \E id \in DOMAIN orders :
        /\ orders[id].filled_amount < MaxFilled
        /\ UpdateFill(id, 1, 100)

Spec ==
    /\ Init
    /\ [][
          \/ Connect
          \/ Disconnect
          \/ Create(1)
          \/ Cancel(1)
          \/ Query(1)
          \/ Fill
       ]_vars

\* ------------------------------------ SpecCreate: create_order on any input
CreateAny(c) ==
    /\ MayCreate /\ MayCall
    /\ \E a \in CreateArgs({"BTC/USDT", "XRP/USDT"}, Sides,
                              {"market", "limit", "stop_market"}, {1, 2}, {NoPrice, 200}) :
          Call(c, a)

SpecCreate ==
    /\ Init
    /\ [][
          \/ Connect
          \/ Disconnect
          \/ CreateAny(1)
          \/ Tick
       ]_vars

\* ------------------------------------- SpecFill: the fills of a fresh order
\* The executor after connect() and one create_order of a limit order.
InitFill ==
    \E amount \in 1..MaxFillAmount :
        LET id == order_id_of(1, 0)
        IN  /\ connected = TRUE
            /\ orders = track_order(<<>>, Order(id, "BTC/USDT", "buy", "limit",
                                                amount, 200, NoPrice, 0))
            /\ order_counter = 2
            /\ balance = [a \in {"USDT", "BTC", "ETH"} |->
                            IF a = "USDT" THEN 100000 ELSE IF a = "BTC" THEN 5 ELSE 50]
            /\ now = 0
            /\ last_reset = 0
            /\ request_count = 1
            /\ requests_per_second = DefaultRequestsPerSecond
            /\ sem_value = DefaultRequestsPerSecond
            /\ sem_waiters = <<>>
            /\ pc = [c \in Callers |-> "idle"]
            /\ call = [c \in Callers |-> NoCall]
            /\ wake_at = [c \in Callers |-> 0]
            /\ group = [c \in Callers |-> NoGroup]
            /\ ord = [c \in Callers |-> 0]
            /\ last = NoReturn
            /\ admitted_at = <<0>>
            /\ notional = [k \in {id} |-> 0]
            /\ RiskDefault
            /\ RouterDefault /\ TrackerDefault

FillAny ==
    \E id \in DOMAIN orders, q \in 1..3, p \in {100, 200} :
        /\ orders[id].filled_amount + q <= MaxFillAmount
        /\ UpdateFill(id, q, p)

SpecFill == InitFill /\ [][FillAny]_vars

\* --------------------------- SpecLimiter: concurrent callers and the clock
\* Several tasks call an executor whose limiter admits RequestsPerSecond
\* requests per second.
CreateLimit(c) ==
    /\ MayCreate
    /\ \E a \in CreateArgs({"BTC/USDT"}, {"buy"}, {"limit"}, {2}, {200}) : Call(c, a)

CancelTracked(c) ==
    \E a \in [op : {"cancel_order"}, order_id : DOMAIN orders] : Call(c, a)

GetBalance(c) == Call(c, [op |-> "get_balance"])

FillOnce ==
    \E id \in DOMAIN orders :
        /\ orders[id].filled_amount < 1
        /\ UpdateFill(id, 1, 100)

InitLimiter == Constructed(RequestsPerSecond) /\ RiskDefault /\ RouterDefault /\ TrackerDefault

SpecLimiter ==
    /\ InitLimiter
    /\ [][
          \/ Connect
          \/ Disconnect
          \/ \E c \in Callers : CreateLimit(c)
          \/ \E c \in Callers : CancelTracked(c)
          \/ \E c \in Callers : GetBalance(c)
          \/ \E c \in Callers : SemResume(c)
          \/ \E c \in Callers : SleepDone(c)
          \/ FillOnce
          \/ Tick
       ]_vars

\* --------------------------------------- SpecRisk: the RiskManager's checks
\* A RiskManager built with some capital and risk level; its two checks are
\* called with entry, stop and target prices around the rounding thresholds
\* (100 and 1000) and with degenerate values (0, stop = entry).
MaxPositions == 5

\* existing_positions with k entries
Positions(k) == [i \in 1..k |-> [position_size |-> QInt(1), current_price |-> QInt(100)]]

CalculatePositionSize ==
    \E entry \in {0, 50, 70, 300, 7000}, stop \in {0, 49, 50, 69, 290, 6990},
       ra \in {NoAmount, QInt(100)} :
        /\ risk_last' = [op |-> "calculate_position_size",
                         entry_price |-> QInt(entry), stop_loss_price |-> QInt(stop),
                         risk_amount |-> ra,
                         result |-> calculate_position_size(current_capital, risk_level,
                                        QInt(entry), QInt(stop), ra)]
        /\ UNCHANGED <<current_capital, risk_level>>
        /\ UNCHANGED <<exec_vars, now, limiter_vars, caller_vars, last, admitted_at,
                       router_vars, risk_positions, tracker_vars>>

ValidateTrade ==
    \E entry \in {0, 100}, stop \in {50, 98, 100}, target \in {101, 110},
       value \in {500, 1500, 9000}, k \in {0, 3, MaxPositions} :
        /\ risk_last' = [op |-> "validate_trade",
                         entry_price |-> QInt(entry), stop_loss |-> QInt(stop),
                         take_profit |-> QInt(target), position_value |-> QInt(value),
                         existing_positions |-> Positions(k),
                         result |-> validate_trade(current_capital, risk_level,
                                        QInt(entry), QInt(stop), QInt(target),
                                        QInt(value), Positions(k))]
        /\ UNCHANGED <<current_capital, risk_level>>
        /\ UNCHANGED <<exec_vars, now, limiter_vars, caller_vars, last, admitted_at,
                       router_vars, risk_positions, tracker_vars>>

InitRisk ==
    /\ Constructed(DefaultRequestsPerSecond)
    /\ \E c \in {0, 1000, 10000}, level \in {"CONSERVATIVE", "MODERATE", "AGGRESSIVE"} :
          RiskConstructed(QInt(c), level)
    /\ RouterDefault /\ TrackerDefault

SpecRisk == InitRisk /\ [][CalculatePositionSize \/ ValidateTrade]_vars


\* ------------------------- SpecPositions: the RiskManager's position table
\* update_position_risk is called again and again for two symbols, with and
\* without volatility, with a stop below and at the entry price.
UpdatePositionRisk ==
    \E symbol \in {"BTC/USDT", "ETH/USDT"}, size \in {1, 2}, current \in {100, 110},
       stop \in {95, 100}, volatility \in {QInt(0), Q(1, 50)} :
        /\ risk_positions' = update_position_risk(risk_positions, symbol, QInt(size),
                                 QInt(100), QInt(current), QInt(stop), QInt(110),
                                 volatility)
        /\ risk_last' = [op |-> "update_position_risk", symbol |-> symbol,
                         position_size |-> QInt(size), entry_price |-> QInt(100),
                         current_price |-> QInt(current), stop_loss |-> QInt(stop),
                         take_profit |-> QInt(110), volatility |-> volatility,
                         \* whether the call found an entry for the symbol
                         replaced |-> symbol \in DOMAIN risk_positions]
        /\ UNCHANGED <<current_capital, risk_level>>
        /\ UNCHANGED <<exec_vars, now, limiter_vars, caller_vars, last, admitted_at,
                       router_vars, tracker_vars>>

InitPositions ==
    /\ Constructed(DefaultRequestsPerSecond)
    /\ \E c \in {1000, 10000} : RiskConstructed(QInt(c), "MODERATE")
    /\ RouterDefault /\ TrackerDefault

SpecPositions == InitPositions /\ [][UpdatePositionRisk]_vars


\* ------------------------------- SpecGroup: OCO, bracket and batch calls
\* One task makes group calls on an executor whose limiter admits
\* RequestsPerSecond calls per second, so that the calls of a group are
\* suspended in the rate limiter and connect(), disconnect() and the clock
\* run in between.  Single cancels and fills come between the group calls.
MaxGroupOrders == 4
MaxBatch == 2

RECURSIVE SeqsUpTo(_, _)
SeqsUpTo(S, n) ==
    IF n = 0 THEN {<<>>}
    ELSE LET shorter == SeqsUpTo(S, n - 1)
         IN  shorter \cup {Append(q, x) : q \in shorter, x \in S}

Room(n) == Cardinality(DOMAIN orders) + n <= MaxGroupOrders

CreateOco(c) ==
    /\ Quiet /\ Room(2)
    /\ \E g \in [op : {"create_oco_order"}, symbol : {"BTC/USDT"}, side : Sides,
                 amount : {2}, price : {200}, stop_price : {150},
                 stop_limit_price : {NoPrice, 140}, leg : {1}, results : {<<>>}] :
          Begin(c, g)

CreateBracket(c) ==
    /\ Quiet /\ Room(3)
    /\ \E g \in [op : {"create_bracket_order"}, symbol : {"BTC/USDT"}, side : Sides,
                 amount : {2}, entry_price : {200}, take_profit_price : {250},
                 stop_loss_price : {150}, stop_loss_type : {"stop_market", "stop_limit"},
                 leg : {1}, results : {<<>>}] :
          Begin(c, g)

BatchCreate(c) ==
    /\ Quiet /\ Room(MaxBatch)
    /\ \E items \in SeqsUpTo(CreateArgs({"BTC/USDT"}, {"buy"}, {"limit"}, {1}, {200})
                             \cup {[op |-> "malformed"]}, MaxBatch) \ {<<>>} :
          Begin(c, [op |-> "batch_create_orders", orders |-> items, leg |-> 1,
                    results |-> <<>>])

BatchCancel(c) ==
    /\ Quiet
    /\ \E ids \in SeqsUpTo(DOMAIN orders \cup {UnknownId}, MaxBatch) \ {<<>>} :
          Begin(c, [op |-> "batch_cancel_orders", order_ids |-> ids, leg |-> 1,
                    results |-> <<>>])

GroupSleepDone(c) == Quiet /\ SleepDone(c)

GroupCancel(c) == Quiet /\ CancelTracked(c)

\* a fill arrives while no call is in progress
GroupFill == (\A c \in Callers : pc[c] = "idle") /\ FillOnce

GroupConnect == Quiet /\ Connect

GroupDisconnect == Quiet /\ Disconnect

GroupTick == Quiet /\ Tick

InitGroup == Constructed(RequestsPerSecond) /\ RiskDefault /\ RouterDefault /\ TrackerDefault

SpecGroup ==
    /\ InitGroup
    /\ [][
          \/ GroupConnect
          \/ GroupDisconnect
          \/ CreateOco(1)
          \/ CreateBracket(1)
          \/ BatchCreate(1)
          \/ BatchCancel(1)
          \/ Leg(1)
          \/ Collect(1)
          \/ GroupSleepDone(1)
          \/ GroupCancel(1)
          \/ GroupFill
          \/ GroupTick
       ]_vars

\* ---------------------- SpecRouter, SpecRouting: SmartOrderRouter calls
\* One task calls the router over NumVenues venues while the venues'
\* tickers move.  SpecRouter: find_best_execution alone, over every kind of
\* answer.  SpecRouting: execute_with_smart_routing over venues that hold no
\* orders yet and that connect and disconnect meanwhile.  Amounts: 0.001
\* (not above the minimum chunk), 0.002 (two chunks of 30%) and 0.011 (three
\* chunks of 30% and one of the remaining 10%).
beside_router == <<exec_vars, now, limiter_vars, caller_vars, last, admitted_at, risk_vars,
                   risk_positions, tracker_vars>>

InitRouter == Constructed(DefaultRequestsPerSecond) /\ RiskDefault /\ RouterDefault /\ TrackerDefault

\* the orders the venues hold
RECURSIVE RoutedUpTo(_)
RoutedUpTo(v) == IF v = 0 THEN 0 ELSE Len(exchanges[v].orders) + RoutedUpTo(v - 1)

TotalRouted == RoutedUpTo(NumVenues)

FindBestExecution ==
    /\ router.pc = "idle"
    /\ \E side \in Sides, amount \in {min_chunk} :
          router' = begin_find([RouterIdle EXCEPT !.op = "find_best_execution",
                                                  !.symbol = "BTC/USDT",
                                                  !.side = side,
                                                  !.amount = amount,
                                                  !.order_type = "market"])
    /\ router_last' = NoRouterStep
    /\ UNCHANGED <<exchanges, quotes, beside_router>>

ExecuteWithSmartRouting ==
    /\ router.pc = "idle"
    /\ TotalRouted = 0
    /\ \E side \in Sides, amount \in {10, 20, 110}, order_type \in {"market", "limit"},
          price \in {NoPrice, 95} :
          LET r == [RouterIdle EXCEPT !.op = "execute_with_smart_routing",
                                      !.symbol = "BTC/USDT",
                                      !.side = side,
                                      !.amount = amount,
                                      !.order_type = order_type,
                                      !.price = price,
                                      !.remaining_amount = amount]
              out == IF order_type = "market" THEN while_loop(r, NoRouterStep)
                     ELSE [router |-> RouterIdle,
                           step |-> [NoRouterStep EXCEPT !.returned =
                                       [is |-> TRUE, op |-> r.op, amount |-> amount,
                                        order_type |-> order_type, value |-> <<>>,
                                        remaining_amount |-> amount,
                                        no_venue |-> FALSE]]]
          IN  /\ router' = out.router
              /\ router_last' = out.step
    /\ UNCHANGED <<exchanges, quotes, beside_router>>

\* `ticker = await exchange.get_ticker(symbol)` answers, and the code up to
\* the next await runs
GetTicker ==
    /\ router.pc = "ticker"
    /\ LET exchange_name == router.i
           ticker == quotes[exchange_name]
           best == consider(router.best, exchange_name, ticker, router.side)
           r == [router EXCEPT !.best = best, !.seen = Append(@, ticker)]
           find == [is |-> TRUE, side |-> router.side, seen |-> r.seen, value |-> best]
           step == [NoRouterStep EXCEPT !.find = find]
           out == IF exchange_name < NumVenues
                  THEN [router |-> [r EXCEPT !.i = exchange_name + 1],
                        step |-> NoRouterStep]
                  ELSE IF router.op = "find_best_execution"
                  THEN [router |-> RouterIdle,
                        step |-> [step EXCEPT !.returned =
                                    [is |-> TRUE, op |-> router.op, value |-> best]]]
                  ELSE after_find(r, best, step)
       IN  /\ router' = out.router
           /\ router_last' = out.step
    /\ UNCHANGED <<exchanges, quotes, beside_router>>

\* `order = await exchange.create_order(...)` returns, and the code up to the
\* next await runs
CreateOrderReturns ==
    /\ router.pc = "order"
    /\ LET exchange_name == router.exchange_name
           res == venue_create_order(exchanges[exchange_name], exchange_name,
                      [symbol |-> router.symbol, side |-> router.side,
                       order_type |-> router.order_type,
                       amount |-> router.chunk_amount, price |-> router.order_price])
           order == res.order
           r == [router EXCEPT
                   !.reports = IF is_filled(order)
                               THEN Append(@, ExecutionReport(order)) ELSE @,
                   !.remaining_amount = IF is_filled(order)
                                        THEN @ - order.filled_amount ELSE @,
                   !.exchange_name = NoVenue,
                   !.chunk_amount = 0,
                   !.order_price = NoPrice]
           out == while_loop(r, [NoRouterStep EXCEPT !.order =
                                    [is |-> TRUE, order |-> order]])
       IN  /\ exchanges' = [exchanges EXCEPT ![exchange_name] = res.venue]
           /\ router' = out.router
           /\ router_last' = out.step
    /\ UNCHANGED <<quotes, beside_router>>

\* A venue's market moves, or its ticker service fails or recovers.  While
\* create_order is suspended the router reads no ticker and no connection
\* flag: what changes then is taken as changing at its return.
VenueTicker(v, answers) ==
    /\ router.pc # "order"
    /\ \E ticker \in answers \ {quotes[v]} : quotes' = [quotes EXCEPT ![v] = ticker]
    /\ router_last' = NoRouterStep
    /\ UNCHANGED <<exchanges, router, beside_router>>

VenueConnect(v) ==
    /\ router.pc # "order"
    /\ ~exchanges[v].connected
    /\ exchanges' = [exchanges EXCEPT ![v].connected = TRUE]
    /\ router_last' = NoRouterStep
    /\ UNCHANGED <<quotes, router, beside_router>>

VenueDisconnect(v) ==
    /\ router.pc # "order"
    /\ exchanges[v].connected
    /\ exchanges' = [exchanges EXCEPT ![v].connected = FALSE]
    /\ router_last' = NoRouterStep
    /\ UNCHANGED <<quotes, router, beside_router>>

SpecRouter ==
    /\ InitRouter
    /\ [][
          \/ FindBestExecution
          \/ GetTicker
          \/ \E v \in Venues :
                VenueTicker(v, {TickerError, Ticker(99, 98, 100), Ticker(90, 89, 91),
                                Ticker(95, 0, 0), LastPriceOnly(95)})
       ]_vars

NextRouting ==
    \/ ExecuteWithSmartRouting
    \/ GetTicker
    \/ CreateOrderReturns
    \/ \E v \in Venues :
          VenueTicker(v, {TickerError, Ticker(99, 98, 100), LastPriceOnly(95)})
    \/ \E v \in Venues : VenueConnect(v)
    \/ \E v \in Venues : VenueDisconnect(v)

SpecRouting == InitRouter /\ [][NextRouting]_vars

\* The event loop resumes a call whose await has an answer: the ticker query
\* that answered or raised, and the create_order that the venue's rate
\* limiter admitted.  CreateOrderReturns is enabled exactly when pc = "order"
\* and is the only step that leaves it, so its weak fairness is stated as
\* the call being outside create_order again and again.
SpecRoutingFair ==
    /\ InitRouter /\ [][NextRouting]_vars
    /\ WF_vars(GetTicker)
    /\ []<>(router.pc # "order")



\* ----------------------------------- SpecTracker: the config-based manager
\* A caller asks can_open_position about long positions of size 1 or 20 at
\* price 100, adds positions it was allowed (in any order, not necessarily
\* right after the answer), reprices them to 110 (the default target is 105),
\* closes them at 100 or 110 and resets the daily statistics.  The manager is
\* built with a limit of MaxOpenPositions open positions and a cap of 100 or
\* 1000.  SpecSizing: calculate_position_size alone, over capitals, prices
\* and caps.
MaxOpenPositions == 1
MaxApproved == 2
MaxTrades == 2

PositionIds == {"p1", "p2"}
all_but_tracker == <<exec_vars, now, limiter_vars, caller_vars, last, admitted_at, risk_vars,
                     router_vars, risk_positions>>

CanOpenPosition ==
    \E id \in PositionIds, size \in {1, 20}, position_type \in {"long"} :
        LET result == can_open_position(config, open_positions, today_pnl,
                                        QInt(size), QInt(100), QInt(1))
            request == [id |-> id, size |-> size, position_type |-> position_type]
        IN  /\ Cardinality(approved \cup {request}) <= MaxApproved
            /\ approved' = IF result.allowed THEN approved \cup {request} ELSE approved
            /\ pos_last' = [op |-> "can_open_position", size |-> QInt(size),
                            price |-> QInt(100), leverage |-> QInt(1), result |-> result]
            /\ UNCHANGED <<config, open_positions, trade_history, today_pnl, daily_stats>>
            /\ UNCHANGED all_but_tracker

AddPosition ==
    \E a \in approved :
        /\ open_positions' = add_position(config, open_positions,
                                new_position(config, a.id, "BTC/USDT", QInt(a.size),
                                             QInt(100), a.position_type, QInt(1)))
        /\ approved' = approved \ {a}
        /\ pos_last' = [op |-> "add_position", position_id |-> a.id, result |-> TRUE,
                        \* whether the call before this one was the
                        \* can_open_position that allowed this position
                        after_approval |-> /\ pos_last.op = "can_open_position"
                                           /\ pos_last.result.allowed
                                           /\ pos_last.size = QInt(a.size)]
        /\ UNCHANGED <<config, trade_history, today_pnl, daily_stats>>
        /\ UNCHANGED all_but_tracker

UpdatePositionPrice ==
    \E id \in PositionIds \cup {"p0"}, price \in {110} :
        LET r == update_position_price(open_positions, id, QInt(price))
        IN  /\ open_positions' = r.open_positions
            /\ pos_last' = [op |-> "update_position_price", position_id |-> id,
                            result |-> r.value]
            /\ UNCHANGED <<config, trade_history, today_pnl, daily_stats, approved>>
            /\ UNCHANGED all_but_tracker

ClosePosition ==
    /\ Len(trade_history) < MaxTrades
    /\ \E id \in PositionIds \cup {"p0"}, price \in {100, 110} :
        LET r == close_position([open_positions |-> open_positions,
                                 trade_history |-> trade_history,
                                 today_pnl |-> today_pnl,
                                 daily_stats |-> daily_stats], id, QInt(price))
        IN  /\ open_positions' = r.state.open_positions
            /\ trade_history' = r.state.trade_history
            /\ today_pnl' = r.state.today_pnl
            /\ daily_stats' = r.state.daily_stats
            /\ pos_last' = [op |-> "close_position", position_id |-> id,
                            result |-> r.value]
            /\ UNCHANGED <<config, approved>>
            /\ UNCHANGED all_but_tracker

ResetDailyStats ==
    /\ today_pnl' = QInt(0)
    /\ daily_stats' = NoStats
    /\ pos_last' = [op |-> "reset_daily_stats"]
    /\ UNCHANGED <<config, open_positions, trade_history, approved>>
    /\ UNCHANGED all_but_tracker

SizePosition ==
    \E capital \in {0, 1000, 10000}, entry \in {0, 10, 100, 45000},
       stop \in {9, 99, 100, 44000} :
        /\ pos_last' = [op |-> "calculate_position_size", capital |-> QInt(capital),
                        entry_price |-> QInt(entry), stop_loss_price |-> QInt(stop),
                        result |-> sized_position(config, QInt(capital), QInt(entry),
                                                  QInt(stop), NoAmount)]
        /\ UNCHANGED <<config, open_positions, trade_history, today_pnl, daily_stats,
                       approved>>
        /\ UNCHANGED all_but_tracker

InitTracker ==
    /\ Constructed(DefaultRequestsPerSecond) /\ RiskDefault /\ RouterDefault
    /\ \E cap \in {100, 1000} :
          TrackerConstructed([default_config EXCEPT !.max_position_size = QInt(cap),
                                                    !.max_open_positions = MaxOpenPositions])

SpecTracker ==
    /\ InitTracker
    /\ [][
          \/ CanOpenPosition
          \/ AddPosition
          \/ UpdatePositionPrice
          \/ ClosePosition
          \/ ResetDailyStats
       ]_vars

InitSizing ==
    /\ Constructed(DefaultRequestsPerSecond) /\ RiskDefault /\ RouterDefault
    /\ \E cap \in {100, 1000, 100000} :
          TrackerConstructed([default_config EXCEPT !.max_position_size = QInt(cap)])

SpecSizing == InitSizing /\ [][SizePosition]_vars


\* ------------------------------------------------------------------ claims
OrderOps == {"create_order", "cancel_order", "get_order", "get_open_orders",
             "get_order_history", "get_balance"}

\* C1: every order has 0 <= filled_amount <= amount, whatever fills and
\* cancels were applied to it.
C1_FilledWithinAmount ==
    \A id \in DOMAIN orders :
        /\ 0 <= orders[id].filled_amount
        /\ orders[id].filled_amount <= orders[id].amount

\* C2: an order in a terminal status (filled, cancelled, rejected, expired)
\* keeps that status in every later step.
C2_TerminalStatusStays ==
    [][\A id \in DOMAIN orders :
          orders[id].status \in {"filled", "cancelled", "rejected", "expired"}
              => orders'[id].status = orders[id].status]_vars

\* C3: while the fills of a fresh order sum to less than its amount it is
\* partially_filled; when they sum exactly to its amount it is filled, with
\* filled_amount = amount and average_price the volume-weighted mean
\* sum(price_i * amount_i) / amount.
C3_FillsToAmount ==
    \A id \in DOMAIN orders :
        LET o == orders[id]
        IN  /\ (0 < o.filled_amount /\ o.filled_amount < o.amount)
                  => o.status = "partially_filled"
            /\ (0 < o.filled_amount /\ o.filled_amount = o.amount)
                  => /\ o.status = "filled"
                     /\ o.average_price = DecDivInt(DecOfInt(notional[id]), o.amount)

\* C4: cancel_order(id) returns true and moves the order to cancelled exactly
\* when id is tracked and its status is new or partially_filled; otherwise it
\* returns false and changes no order and no balance.
C4_CancelOrder ==
    [][last'.op = "cancel_order" =>
          LET id == last'.call.order_id
              cancellable == /\ id \in DOMAIN orders
                             /\ orders[id].status \in {"new", "partially_filled"}
          IN  /\ last'.outcome = "ok"
              /\ balance' = balance
              /\ DOMAIN orders' = DOMAIN orders
              /\ IF cancellable
                 THEN /\ last'.value = TRUE
                      /\ orders'[id] = [orders[id] EXCEPT !.status = "cancelled"]
                      /\ \A k \in DOMAIN orders \ {id} : orders'[k] = orders[k]
                 ELSE /\ last'.value = FALSE
                      /\ orders' = orders]_vars

\* C4 witness: a second cancel of an order this executor cancelled returned false
C4_Witness ==
    /\ last.op = "cancel_order"
    /\ last.value = FALSE
    /\ last.call.order_id \in DOMAIN orders
    /\ orders[last.call.order_id].status = "cancelled"

\* C5: while the executor is not connected, every operation other than
\* connect/disconnect fails with a connectivity error and changes no order
\* and no balance.
C5_ConnectionGates ==
    [][(~connected /\ ~connected' /\ last'.op \in OrderOps) =>
          /\ last'.outcome = "ConnectionError"
          /\ orders' = orders
          /\ balance' = balance]_vars

\* C6: a successful market create_order returns a filled order with
\* filled_amount = amount and average_price = the execution price (the price
\* supplied, else the ticker price of the symbol, 100 for a symbol without
\* ticker); a buy adds amount to the base asset and takes amount * price from
\* the quote asset, a sell the inverse; no other balance entry changes.
C6_MarketOrderFills ==
    [][(last'.op = "create_order" /\ last'.outcome = "ok"
            /\ last'.call.order_type = "market") =>
          LET a == last'.call
              o == orders'[last'.value]
              px == IF a.price # NoPrice THEN a.price
                    ELSE IF a.symbol = "BTC/USDT" THEN 50000 ELSE 100
              base == IF a.symbol = "BTC/USDT" THEN "BTC" ELSE "XRP"
              sign == IF a.side = "buy" THEN 1 ELSE -1
              before(k) == IF k \in DOMAIN balance THEN balance[k] ELSE 0
          IN  /\ o.status = "filled"
              /\ o.filled_amount = a.amount
              /\ o.amount = a.amount
              /\ o.average_price = DecOfInt(px)
              /\ DOMAIN balance' = DOMAIN balance \cup {base, "USDT"}
              /\ balance'[base] = before(base) + sign * a.amount * 10
              /\ balance'["USDT"] = before("USDT") - sign * a.amount * px * 10
              /\ \A k \in DOMAIN balance \ {base, "USDT"} : balance'[k] = balance[k]]_vars

\* C6 witness: a market sell at the ticker price has returned
C6_Witness ==
    /\ last.op = "create_order"
    /\ last.outcome = "ok"
    /\ last.call.order_type = "market"
    /\ last.call.side = "sell"
    /\ last.call.price = NoPrice
    /\ orders[last.value].status = "filled"

\* C7: a successful limit create_order leaves the new order at status new,
\* filled_amount 0 and average_price 0 and changes no balance; an order of
\* any type is in the order table when create_order returns it.
C7_LimitOrderStaysNew ==
    [][(last'.op = "create_order" /\ last'.outcome = "ok") =>
          /\ last'.value \in DOMAIN orders'
          /\ orders'[last'.value].order_type = last'.call.order_type
          /\ last'.call.order_type = "limit" =>
                /\ orders'[last'.value].status = "new"
                /\ orders'[last'.value].filled_amount = 0
                /\ orders'[last'.value].average_price = DecOfInt(0)
                /\ balance' = balance]_vars

\* C7 witness: a limit order and an order of another type are both tracked,
\* the limit order just returned
C7_Witness ==
    /\ last.op = "create_order"
    /\ last.outcome = "ok"
    /\ last.call.order_type = "limit"
    /\ orders[last.value].status = "new"
    /\ \E k \in DOMAIN orders : orders[k].order_type = "stop_market"

C9_AtMostNPerSecond == Len(admitted_at) <= requests_per_second

\* C10: of the calls issued within one second the first requests_per_second
\* are not delayed by the rate limiter, the next one is, and every
\* create_order that was let through returns its order.
C10_FirstNNotDelayed ==
    /\ \A c \in Callers : pc[c] = "sleeping" => ord[c] > requests_per_second
    /\ last.op \in OrderOps /\ last.outcome = "ok"
          => (last.slept <=> last.ord > requests_per_second)
    /\ last.op = "create_order" /\ last.outcome = "ok"
          => last.value \in DOMAIN orders

\* C11: callers leave RateLimiter.acquire() in the order they called it: a
\* call returns only when no caller that called acquire() before it is still
\* inside acquire().  Of the callers inside acquire(), those asleep called
\* before those queued on the semaphore; the sleepers called in the order of
\* (window end, request_count), the queued ones in queue order.
C11_AdmittedInCallOrder ==
    [][(last'.op \in OrderOps /\ last'.outcome = "ok") =>
          LET resumed == {c \in Callers : pc[c] # "idle" /\ pc'[c] = "idle"}
              pos(c) == CHOOSE i \in 1..Len(sem_waiters) : sem_waiters[i] = c
              before(d, c) ==
                  IF pc[d] = "sleeping"
                  THEN \/ pc[c] # "sleeping"
                       \/ wake_at[d] < wake_at[c]
                       \/ wake_at[d] = wake_at[c] /\ ord[d] < ord[c]
                  ELSE pc[c] # "sleeping" /\ pos(d) < pos(c)
          IN  IF resumed = {}
              THEN \A d \in Callers : pc[d] = "idle"
              ELSE \A c \in resumed : \A d \in Callers \ {c} :
                      pc[d] # "idle" => ~before(d, c)]_vars

\* C12: validate_trade evaluates all six rules on every call that returns:
\* its reason list holds exactly one message for each violated rule (position
\* fraction; risk/reward below the minimum, or stop = entry; concurrent
\* positions; 80% exposure; stop-loss distance; 5% daily-loss estimate), in
\* rule order, and the boolean is true exactly when the list is empty.
C12_AllRulesReported ==
    (risk_last.op = "validate_trade" /\ risk_last.result.raised = "none") =>
        LET cap == current_capital.n
            e == risk_last.entry_price.n
            st == risk_last.stop_loss.n
            tp == risk_last.take_profit.n
            v == risk_last.position_value.n
            k == Len(risk_last.existing_positions)
            dist == IF e < st THEN st - e ELSE e - st
            gain == IF tp < e THEN e - tp ELSE tp - e
            \* per cent, tenths, per cent, count
            max_pct == IF risk_level = "CONSERVATIVE" THEN 5
                       ELSE IF risk_level = "MODERATE" THEN 10 ELSE 20
            min_rr10 == IF risk_level = "CONSERVATIVE" THEN 20
                        ELSE IF risk_level = "MODERATE" THEN 15 ELSE 10
            max_stop_pct == IF risk_level = "CONSERVATIVE" THEN 2
                            ELSE IF risk_level = "MODERATE" THEN 5 ELSE 10
            max_trades == IF risk_level = "CONSERVATIVE" THEN 3
                          ELSE IF risk_level = "MODERATE" THEN 5 ELSE 10
            violated ==
                {r \in {"position_size"} : v * 100 > max_pct * cap}
                \cup {r \in {"risk_reward"} : dist > 0 /\ gain * 10 < min_rr10 * dist}
                \cup {r \in {"invalid_stop_loss"} : dist = 0}
                \cup {r \in {"max_concurrent_trades"} : k >= max_trades}
                \cup {r \in {"exposure"} : (k * 100 + v) * 10 > 8 * cap}
                \cup {r \in {"stop_loss_distance"} : dist * 100 > max_stop_pct * e}
                \cup {r \in {"daily_loss"} : v * dist * 100 > 5 * cap * e}
            errors == risk_last.result.errors
            rank(r) == CHOOSE i \in 1..7 :
                          <<"position_size", "risk_reward", "invalid_stop_loss",
                            "max_concurrent_trades", "exposure", "stop_loss_distance",
                            "daily_loss">>[i] = r
        IN  /\ {errors[i] : i \in 1..Len(errors)} = violated
            /\ Len(errors) = Cardinality(violated)
            /\ \A i \in 1..Len(errors), j \in 1..Len(errors) :
                  i < j => rank(errors[i]) < rank(errors[j])
            /\ risk_last.result.ok = (violated = {})

\* C12 witness: a Moderate trade worth 15% of capital with risk/reward 0.5
\* is refused with both reasons, and only those
C12_Witness ==
    /\ risk_last.op = "validate_trade"
    /\ risk_level = "MODERATE"
    /\ current_capital = QInt(10000)
    /\ risk_last.position_value = QInt(1500)
    /\ risk_last.result.raised = "none"
    /\ risk_last.result.ok = FALSE
    /\ risk_last.result.errors = <<"position_size", "risk_reward">>

\* C13: for positive entry, stop # entry and positive capital, the size that
\* calculate_position_size returns is <= each of the three candidate sizes
\* and size * entry_price <= current_capital * max_position_size.
C13_SizeWithinCandidates ==
    (/\ risk_last.op = "calculate_position_size"
     /\ risk_last.entry_price.n > 0
     /\ risk_last.entry_price # risk_last.stop_loss_price
     /\ current_capital.n > 0
     /\ risk_last.result.raised = "none") =>
        LET size == risk_last.result.position_size
            m == risk_last.result.risk_metrics
        IN  /\ QLeq(size, m.basic_position_size)
            /\ QLeq(size, m.kelly_position_size)
            /\ QLeq(size, m.max_allowed_position)
            /\ QLeq(QMul(size, risk_last.entry_price),
                    QMul(current_capital, risk_limits(risk_level).max_position_size))

\* C14: calculate_position_size(entry, stop) with stop = entry returns size 0
\* and an empty metrics payload, raises nothing and changes no RiskManager
\* state, for every entry (0 too) and every risk_amount.
C14_EqualStopGivesZero ==
    [][(/\ risk_last'.op = "calculate_position_size"
        /\ risk_last'.entry_price = risk_last'.stop_loss_price) =>
          /\ risk_last'.result.raised = "none"
          /\ risk_last'.result.position_size = QInt(0)
          /\ risk_last'.result.risk_metrics = <<>>
          /\ current_capital' = current_capital
          /\ risk_level' = risk_level]_vars

\* C14 witness: entry = stop = 0 with a risk_amount given, on a RiskManager
\* without capital
C14_Witness ==
    /\ risk_last.op = "calculate_position_size"
    /\ risk_last.entry_price = QInt(0)
    /\ risk_last.stop_loss_price = QInt(0)
    /\ risk_last.risk_amount = QInt(100)
    /\ current_capital = QInt(0)
    /\ risk_last.result.position_size = QInt(0)

\* C15: no call of calculate_position_size or validate_trade raises, also
\* with entry_price 0 or current_capital 0.
C15_NoDivisionByZero ==
    risk_last.op # "none" => risk_last.result.raised = "none"

C17_BracketOrders ==
    [][(last'.op = "create_bracket_order" /\ last'.outcome = "ok") =>
          LET g == last'.call
              ids == last'.value
              entry == orders'[ids[1]]
              tp == orders'[ids[2]]
              sl == orders'[ids[3]]
              other == IF g.side = "buy" THEN "sell" ELSE "buy"
          IN  /\ Len(ids) = 3
              /\ \A i \in 1..3 : /\ ids[i] \in DOMAIN orders'
                                 /\ ids[i][1] = order_counter' - 4 + i
                                 /\ orders'[ids[i]].amount = g.amount
                                 /\ orders'[ids[i]].symbol = g.symbol
                                 /\ DOMAIN orders'[ids[i]].tags
                                        = {"bracket_id", "bracket_orders"}
                                 /\ orders'[ids[i]].tags["bracket_orders"] = ids
                                 /\ orders'[ids[i]].tags["bracket_id"]
                                        = entry.tags["bracket_id"]
              /\ Cardinality(DOMAIN orders') = order_counter' - 1
              /\ entry.order_type = "limit" /\ entry.side = g.side
              /\ tp.order_type = "limit" /\ tp.side = other
              /\ sl.order_type = g.stop_loss_type /\ sl.side = other]_vars

\* C17 witness: a sell bracket has returned whose second order waited in the
\* rate limiter
C17_Witness ==
    /\ last.op = "create_bracket_order"
    /\ last.outcome = "ok"
    /\ last.call.side = "sell"
    /\ now >= TicksPerSecond
    /\ orders[last.value[3]].side = "buy"

\* C18: batch_create_orders keeps, in input order, the order of every item
\* whose create_order returned and goes on after an item that raised;
\* batch_cancel_orders never raises and returns a map with an entry for every
\* input id, true exactly for the ids whose order this call cancelled: an
\* entry that a cancel of this call made true is true in the map returned.
C18_BatchIsolation ==
    [][\A c \in Callers :
          LET g == group[c]
              after == IF group'[c] = NoGroup THEN last'.value ELSE group'[c].results
              returns == group'[c] = NoGroup
          IN  /\ (g.op = "batch_create_orders" /\ pc[c] = "returned") =>
                    /\ after = IF last.outcome = "ok"
                               THEN Append(g.results, last.value) ELSE g.results
                    /\ returns <=> g.leg = Len(g.orders)
                    /\ returns => last'.outcome = "ok"
              /\ (g.op = "batch_cancel_orders" /\ pc[c] = "returned") =>
                    /\ \A id \in DOMAIN g.results : g.results[id] => after[id]
                    /\ last.value = TRUE => after[last.call.order_id]
                    /\ returns <=> g.leg = Len(g.order_ids)
                    /\ returns =>
                          /\ last'.outcome = "ok"
                          /\ DOMAIN after = {g.order_ids[i] : i \in 1..Len(g.order_ids)}]_vars

\* C19: when find_best_execution returns, its result is the venue offering
\* the lowest price for a buy (the ask, or the last price of a venue that has
\* no ask) and the highest bid for a sell among the venues whose ticker query
\* succeeded and gave a price, together with that price; venues whose query
\* raised are passed over; with no such venue the result is (None, 0).
\* A venue has no ask when its answer has no ask attribute or an ask of 0;
\* for a sell, the last price stands in when the answer has no bid attribute.
C19_BestVenue ==
    router_last.find.is =>
        LET f == router_last.find
            offered_price(ticker, side) ==
                IF side = "sell" THEN ticker_price(ticker, side)
                ELSE IF ticker.has_quotes /\ ticker.ask # 0 THEN ticker.ask
                ELSE ticker.last_price
            priced == {i \in 1..Len(f.seen) :
                          ~f.seen[i].raises /\ offered_price(f.seen[i], f.side) # 0}
        IN  /\ Len(f.seen) = NumVenues
            /\ IF priced = {} THEN f.value = NoBest
               ELSE /\ f.value.exchange \in priced
                    /\ f.value.price = offered_price(f.seen[f.value.exchange], f.side)
                    /\ \A i \in priced :
                          IF f.side = "buy"
                          THEN f.value.price <= offered_price(f.seen[i], f.side)
                          ELSE f.value.price >= offered_price(f.seen[i], f.side)

RECURSIVE SumExecuted(_)
SumExecuted(reports) ==
    IF reports = <<>> THEN 0
    ELSE reports[1].executed_amount + SumExecuted(Tail(reports))

\* C20: in execute_with_smart_routing of a market order for amount A, every
\* chunk sent is at most min(remaining, 30% of A); the step in which a chunk's
\* order comes back filled appends exactly its report and no other step
\* changes the reports; executed amounts plus remaining equal A throughout,
\* so the executed total is at most A; and the call returns only with
\* remaining <= 0.001 or after find_best_execution found no venue.
C20_ChunksAndReports ==
    [][ /\ router_last'.sent.is =>
            LET s == router_last'.sent
            IN  /\ s.amount <= s.remaining_amount
                /\ 10 * s.amount <= 3 * s.total
        /\ (router'.op = "execute_with_smart_routing" /\ router'.order_type = "market") =>
              /\ SumExecuted(router'.reports) + router'.remaining_amount = router'.amount
              /\ SumExecuted(router'.reports) <= router'.amount
        /\ (router.op = "execute_with_smart_routing" /\ router'.op = router.op) =>
              IF router_last'.order.is /\ is_filled(router_last'.order.order)
              THEN router'.reports =
                      Append(router.reports, ExecutionReport(router_last'.order.order))
              ELSE router'.reports = router.reports
        /\ (router_last'.returned.is
              /\ router_last'.returned.op = "execute_with_smart_routing"
              /\ router_last'.returned.order_type = "market") =>
              LET r == router_last'.returned
              IN  /\ SumExecuted(r.value) + r.remaining_amount = r.amount
                  /\ r.remaining_amount <= min_chunk \/ r.no_venue
                  /\ router.op = r.op =>
                        IF router_last'.order.is /\ is_filled(router_last'.order.order)
                        THEN r.value = Append(router.reports,
                                              ExecutionReport(router_last'.order.order))
                        ELSE r.value = router.reports
      ]_vars

\* a routed order of 0.011 returned four reports, the last for the remaining
\* 0.0011, and nothing remains
C20_Witness ==
    /\ router_last.returned.is
    /\ router_last.returned.op = "execute_with_smart_routing"
    /\ router_last.returned.amount = 110
    /\ Len(router_last.returned.value) = 4
    /\ router_last.returned.value[4].executed_amount = 11
    /\ router_last.returned.remaining_amount = 0

\* C21: execute_with_smart_routing of a market order always terminates:
\* whatever the venues do (ticker queries answering or raising, create_order
\* filling or raising on a disconnected venue), a call in progress eventually
\* returns its reports.
C21_RoutingTerminates ==
    (router.op = "execute_with_smart_routing") ~> (router.pc = "idle")

\* C22: execute_with_smart_routing with a non-market order type is no silent
\* no-op: in the step in which such a call returns (it never raises), exactly
\* one order has been added to the venues' order tables, on one venue.
C22_NonMarketPassedThrough ==
    [][ (/\ router_last'.returned.is
         /\ router_last'.returned.op = "execute_with_smart_routing"
         /\ router_last'.returned.order_type # "market")
        => TotalRouted' = TotalRouted + 1 ]_vars

\* C23: calculate_position_size(capital, entry_price, stop_loss_price) of the
\* config-based RiskManager, called with a positive capital, a positive entry
\* price different from the stop and the default risk percentage, returns a
\* positive position_size and a risk_amount equal to capital * risk_per_trade,
\* whatever the entry price and the max_position_size cap.
C23_RiskAmountIsShareOfCapital ==
    (/\ pos_last.op = "calculate_position_size"
     /\ pos_last.capital.n > 0
     /\ pos_last.entry_price.n > 0
     /\ pos_last.entry_price # pos_last.stop_loss_price)
    => /\ pos_last.result.raised = "none"
       /\ QLess(QInt(0), pos_last.result.position_size)
       /\ LET share == QMul(pos_last.capital, config.risk_per_trade)
          IN  pos_last.result.risk_amount.n * share.d
                  = share.n * pos_last.result.risk_amount.d

C30_StatsAndHistory ==
    /\ [](/\ daily_stats.total_trades
               = daily_stats.winning_trades + daily_stats.losing_trades
          /\ today_pnl = daily_stats.total_pnl)
    /\ [][/\ (pos_last'.op \in {"close_position", "update_position_price"}
              /\ \A i \in 1..Len(open_positions) :
                     open_positions[i].id # pos_last'.position_id)
             => /\ pos_last'.result.empty
                /\ UNCHANGED <<config, open_positions, trade_history, today_pnl,
                               daily_stats>>
          /\ (pos_last'.op = "close_position"
              /\ \E i \in 1..Len(open_positions) :
                     open_positions[i].id = pos_last'.position_id)
             => /\ ~pos_last'.result.empty
                /\ Len(open_positions') = Len(open_positions) - 1
                /\ open_positions'
                       = pop(open_positions,
                             position_index(open_positions, pos_last'.position_id))
                /\ Len(trade_history') = Len(trade_history) + 1
                /\ trade_history'
                       = Append(trade_history, pos_last'.result.trade)]_vars

\* a winning trade and a trade closed at its entry price have been recorded,
\* the second of them by the last call, and one position is still open
C30_Witness ==
    /\ pos_last.op = "close_position"
    /\ ~pos_last.result.empty
    /\ pos_last.result.trade.final_pnl = QInt(0)
    /\ daily_stats.total_trades = 2
    /\ daily_stats.winning_trades = 1
    /\ daily_stats.losing_trades = 1
    /\ Len(trade_history) = 2
    /\ Len(open_positions) = 1

\* C26: update_position_risk(symbol, ...) leaves under positions[symbol] a
\* record built from the call's arguments alone: the arguments themselves,
\* value_at_risk = size * current_price * volatility * 1.65, expected_loss =
\* size * |entry - stop|, margin = 10% of size * current_price, risk/reward
\* |target - entry| / |entry - stop|, or 0 when entry = stop; no other field,
\* nothing of the entry it replaces.  The entries of the other symbols,
\* current_capital and the risk level that selects the limits are unchanged.
C26_FullOverwrite ==
    [][risk_last'.op = "update_position_risk" =>
        LET a == risk_last'
            exposure == QMul(a.position_size, a.current_price)
            distance == QAbs(QSub(a.entry_price, a.stop_loss))
        IN  /\ DOMAIN risk_positions' = DOMAIN risk_positions \cup {a.symbol}
            /\ risk_positions'[a.symbol]
                 = [symbol |-> a.symbol, position_size |-> a.position_size,
                    entry_price |-> a.entry_price, current_price |-> a.current_price,
                    stop_loss |-> a.stop_loss, take_profit |-> a.take_profit,
                    volatility |-> a.volatility,
                    value_at_risk |-> QMul(QMul(exposure, a.volatility), Q(165, 100)),
                    expected_loss |-> QMul(a.position_size, distance),
                    risk_reward_ratio |->
                        IF a.entry_price = a.stop_loss THEN QInt(0)
                        ELSE QDiv(QAbs(QSub(a.take_profit, a.entry_price)), distance),
                    margin_requirement |-> QDiv(exposure, QInt(10))]
            /\ \A s \in DOMAIN risk_positions \ {a.symbol} :
                   risk_positions'[s] = risk_positions[s]
            /\ UNCHANGED <<current_capital, risk_level>>]_vars

\* a call without volatility and with the stop at the entry price has replaced
\* an entry, while the other symbol's entry carries a value at risk
C26_Witness ==
    /\ risk_last.op = "update_position_risk"
    /\ risk_last.replaced
    /\ risk_last.volatility = QInt(0)
    /\ risk_last.stop_loss = risk_last.entry_price
    /\ risk_positions[risk_last.symbol].value_at_risk = QInt(0)
    /\ risk_positions[risk_last.symbol].risk_reward_ratio = QInt(0)
    /\ \E s \in DOMAIN risk_positions \ {risk_last.symbol} :
           QLess(QInt(0), risk_positions[s].value_at_risk)

\* C25: get_open_orders(symbol) returns, each once, exactly the tracked orders
\* whose status is new, pending_new or partially_filled and, when a symbol is
\* given, whose symbol is that one: no filled or cancelled order is among
\* them and every cancellable order (new or partially_filled) of the symbol is.
C25_OpenOrders ==
    last.op = "get_open_orders" =>
        LET symbol == last.call.symbol
            reported == {last.value[i] : i \in 1..Len(last.value)}
            asked_for(id) == symbol = None \/ orders[id].symbol = symbol
        IN  /\ last.outcome = "ok"
            /\ Len(last.value) = Cardinality(reported)
            /\ reported = {id \in DOMAIN orders :
                             /\ orders[id].status
                                    \in {"new", "pending_new", "partially_filled"}
                             /\ asked_for(id)}
            /\ \A id \in reported : orders[id].status \notin {"filled", "cancelled"}
            /\ \A id \in DOMAIN orders :
                   (orders[id].status \in {"new", "partially_filled"} /\ asked_for(id))
                   => id \in reported

\* get_open_orders("BTC/USDT") has returned a partially filled order and left
\* out a cancelled order of that symbol
C25_Witness ==
    /\ last.op = "get_open_orders"
    /\ last.call.symbol = "BTC/USDT"
    /\ \E i \in 1..Len(last.value) : orders[last.value[i]].status = "partially_filled"
    /\ \E id \in DOMAIN orders :
           orders[id].symbol = "BTC/USDT" /\ orders[id].status = "cancelled"

\* C27: a create_order call that returns while the executor is disconnected
\* has failed with the connectivity error and has changed no order and no
\* balance, also when disconnect() ran while the call was suspended in the
\* rate limiter.
C27_NoOrderWhileDisconnected ==
    [][(~connected' /\ last'.op = "create_order") =>
          /\ last'.outcome = "ConnectionError"
          /\ orders' = orders
          /\ balance' = balance]_vars

\* what the market orders among ids have added to the balance of asset
RECURSIVE ledger_over(_, _)
ledger_over(ids, asset) ==
    IF ids = {} THEN 0
    ELSE LET id == CHOOSE x \in ids : TRUE
             o == orders[id]
             sign == IF o.side = "buy" THEN 1 ELSE -1
             moved == IF o.order_type # "market" THEN 0
                      ELSE (IF base_currency(o.symbol) = asset
                            THEN sign * o.amount * 10 ELSE 0)
                           - (IF quote_currency(o.symbol) = asset
                              THEN sign * notional[id] * 10 ELSE 0)
         IN  moved + ledger_over(ids \ {id}, asset)

\* C28: every balance of the mock is its initial balance plus the amounts of
\* the market buys and minus the amounts of the market sells with that base,
\* minus the notional of the market buys and plus the notional of the market
\* sells with that quote (no commission, nothing for limit and stop orders or
\* cancels), and no balance is ever negative.
C28_BalanceLedger ==
    \A asset \in {"USDT", "BTC", "ETH", "XRP"} :
        LET initial == IF asset = "USDT" THEN 100000
                       ELSE IF asset = "BTC" THEN 5
                       ELSE IF asset = "ETH" THEN 50 ELSE 0
        IN  /\ balance_get(balance, asset) = initial + ledger_over(DOMAIN orders, asset)
            /\ balance_get(balance, asset) >= 0

\* C29: when create_oco_order or create_bracket_order raises, none of the
\* orders its earlier create_order calls created is in the order table.
C29_AllOrNothing ==
    [][(last'.op \in {"create_oco_order", "create_bracket_order"}
            /\ last'.outcome # "ok") =>
          \A i \in 1..Len(last'.call.results) :
              last'.call.results[i] \notin DOMAIN orders']_vars

====
